---------------------------- MODULE Spec2Model ----------------------------
(***************************************************************************)
(* Model of the Asset Tracker Template state inspector                     *)
(* (scripts/inspect_state.py): the DWARF type resolver (TypeParser), the   *)
(* state-pointer-to-name mapper (read_smf_state_name), the memory value    *)
(* renderer (read_value), the interactive inspector (print_summary,        *)
(* inspect_module_detail, print_struct) and the analysis of the binary     *)
(* (analyze_elf, get_symbol_info); and of two test utilities: the posting  *)
(* of a FOTA job (tests/on_target/utils/nrfcloud.py) and the comparison of *)
(* state machines (tests/state_machines/verify_machine.py).                *)
(*                                                                         *)
(* Python values are modelled as follows.  None is the integer -1 where    *)
(* the code holds an Optional[int] (addresses, attribute values: all of    *)
(* them non-negative when present) and the node id 0 where it holds an     *)
(* Optional[TypeInfo].  A TypeInfo object is a record in `heap`; its       *)
(* identity (Python `is`) is its index in `heap`.  A str is a TLA+ string. *)
(***************************************************************************)
EXTENDS Integers, Sequences, FiniteSets, TLC

VARIABLES
    dies,       \* the debug-info records (DIEs) of the binary, by offset
    heap,       \* every TypeInfo object constructed so far
    cache,      \* TypeParser.cache: DIE offset -> node id
    stack,      \* the Python call stack of parse_type activations
    retval,     \* the value returned by the activation that just returned
    raised,     \* an exception is propagating out of parse_type
    calls,      \* the completed top-level parse_type calls of this parser
    smf,        \* the inputs and the result of one read_smf_state_name call
    rv,         \* the inputs and the result of one read_value call
    ui,         \* the interactive loop: probe, lookup, what was printed
    elf,        \* the analysis of a binary: its units and its lookup
    fota,       \* one call of NRFCloudFOTA.post_fota_job and the jobs it made
    vm          \* one call of compare_state_machines

parseVars == <<dies, heap, cache, stack, retval, raised, calls>>
others == <<smf, rv, ui, elf, fota, vm>>
vars == <<dies, heap, cache, stack, retval, raised, calls, smf, rv, ui, elf,
          fota, vm>>

None == -1
NoNode == 0
NoName == ""
Idle == [phase |-> "idle"]

(***************************************************************************)
(* Bounds of the model.                                                    *)
(***************************************************************************)
NumDies == 3            \* type records in the compilation unit
MaxCalls == 2           \* top-level parse_type calls on one TypeParser
CuOffset == 11          \* offset of the compilation unit in .debug_info
RecursionLimit == 8     \* depth at which the interpreter raises RecursionError

FirstDie == CuOffset + 1

(***************************************************************************)
(* Decimal and hexadecimal formatting (f"{n}", f"{n:X}", f"{n:08X}").      *)
(***************************************************************************)
Digits == <<"0", "1", "2", "3", "4", "5", "6", "7", "8", "9",
            "A", "B", "C", "D", "E", "F">>

RECURSIVE ToBase(_, _)
ToBase(n, b) ==
    IF n < b THEN Digits[n + 1]
    ELSE ToBase(n \div b, b) \o Digits[(n % b) + 1]

Str(n) == IF n < 0 THEN "-" \o ToBase(-n, 10) ELSE ToBase(n, 10)
Hex(n) == IF n < 0 THEN "-" \o ToBase(-n, 16) ELSE ToBase(n, 16)

RECURSIVE ZeroPad(_, _)
ZeroPad(s, w) == IF Len(s) >= w THEN s ELSE ZeroPad("0" \o s, w)
Hex08(n) == ZeroPad(Hex(n), 8)


(***************************************************************************)
(* Debug-info records.  A DIE is [tag, name, byte_size, type, children];   *)
(* a child record is [tag, name, location, type, upper, const_value].  An  *)
(* absent integer attribute is None, an absent name is NoName (the code    *)
(* treats a missing and an empty DW_AT_name alike: `_decode_name(..) or    *)
(* "<anon>"`), an absent DW_AT_type is NoAttr.                             *)
(***************************************************************************)
WrapperTags == <<"DW_TAG_typedef", "DW_TAG_const_type", "DW_TAG_volatile_type">>
RelativeForms == {"DW_FORM_ref1", "DW_FORM_ref2", "DW_FORM_ref4", "DW_FORM_ref8",
                  "DW_FORM_ref_udata"}
AbsoluteForms == {"DW_FORM_ref_addr", "DW_FORM_ref_sig8"}

NoAttr == [form |-> "", value |-> None]

\* The DW_AT_type attribute a producer emits, in form `form`, for a
\* reference to the record at offset `target`.
TypeAttr(form, target) ==
    [form |-> form,
     value |-> IF form \in RelativeForms THEN target - CuOffset ELSE target]

Die(tag, name, size, type, children) ==
    [tag |-> tag, name |-> name, byte_size |-> size, type |-> type,
     children |-> children]

Child(tag, name, loc, type, upper, cval) ==
    [tag |-> tag, name |-> name, location |-> loc, type |-> type,
     upper |-> upper, const_value |-> cval]

Member(name, loc, type) == Child("DW_TAG_member", name, loc, type, None, None)
Subrange(upper) == Child("DW_TAG_subrange_type", NoName, None, NoAttr, upper, None)
Enumerator(name, val) == Child("DW_TAG_enumerator", name, None, NoAttr, None, val)
OtherChild == Child("DW_TAG_variable", "v", None, NoAttr, None, None)

BaseShapes == << <<"int", 4>>, <<"char", 1>>, <<NoName, None>> >>

StateEnumerators ==
    << Enumerator("STATE_A", 0), Enumerator("STATE_B", 1),
       Enumerator(NoName, 2), Enumerator("STATE_B2", 1) >>

(***************************************************************************)
(* The records a compiler can place at slot i of the unit: every kind of   *)
(* type record, referring to the next record, to the first record of the   *)
(* unit (so that cycles arise) or to nothing.  The record after the last   *)
(* one does not exist: a reference to it cannot be resolved.  Records at   *)
(* odd slots refer by unit-relative offset, the others by absolute offset. *)
(***************************************************************************)
DieShapes(i) ==
    LET form == IF i % 2 = 1 THEN "DW_FORM_ref4" ELSE "DW_FORM_ref_addr"
        nxt == TypeAttr(form, CuOffset + i + 1)
        fst == TypeAttr(form, FirstDie)
        wtag == WrapperTags[(i % 3) + 1]
        base == BaseShapes[(i % 3) + 1]
    IN  { Die("DW_TAG_structure_type", "node", 8, NoAttr,
              << Member("next", 0, nxt) >>),
          Die("DW_TAG_structure_type", NoName, 12, NoAttr,
              << OtherChild, Member(NoName, None, fst),
                 Member("bare", 4, NoAttr), Member("val", 8, nxt) >>),
          Die("DW_TAG_pointer_type", NoName, None, nxt, << >>),
          IF i % 2 = 1 THEN Die("DW_TAG_pointer_type", NoName, None, fst, << >>)
          ELSE Die("DW_TAG_pointer_type", NoName, 8, NoAttr, << >>),
          Die("DW_TAG_array_type", NoName, None, nxt, << Subrange(2) >>),
          Die(wtag, "alias_t", None, nxt, << >>),
          Die(wtag, "alias_t", None, IF i % 2 = 1 THEN fst ELSE NoAttr, << >>),
          Die("DW_TAG_enumeration_type", "state", 4, NoAttr, StateEnumerators),
          Die("DW_TAG_base_type", base[1], base[2], NoAttr, << >>) }

\* Every unit of n records, as the sequence of its records.
RECURSIVE Units(_)
Units(n) ==
    IF n = 0 THEN { << >> }
    ELSE { Append(u, d) : u \in Units(n - 1), d \in DieShapes(n) }

(***************************************************************************)
(* Units that open with an array record: with and without a declared byte  *)
(* size and an element type, with no, one or several subrange children     *)
(* (one per dimension), bounded or not; then any record as the element     *)
(* type, then base types.                                                  *)
(***************************************************************************)
MaxUpper == 3           \* largest DW_AT_upper_bound of a subrange
DeclaredSize == 24      \* a DW_AT_byte_size some array records carry

SubrangeShapes ==
    { << >>,
      << Subrange(None) >>,
      << Subrange(0) >>,
      << Subrange(MaxUpper) >>,
      << Subrange(1), Subrange(MaxUpper - 1) >>,
      << Subrange(MaxUpper), Subrange(None) >>,
      << OtherChild, Subrange(1) >> }

ArrayShapes ==
    { Die("DW_TAG_array_type", NoName, size, type, subs) :
        size \in {None, DeclaredSize},
        type \in {NoAttr, TypeAttr("DW_FORM_ref4", FirstDie + 1)},
        subs \in SubrangeShapes }

RECURSIVE ArrayUnits(_)
ArrayUnits(n) ==
    IF n = 1 THEN { << a >> : a \in ArrayShapes }
    ELSE IF n = 2 THEN { Append(u, d) : u \in ArrayUnits(1), d \in DieShapes(2) }
    ELSE { Append(u, Die("DW_TAG_base_type", "int", 4, NoAttr, << >>)) :
             u \in ArrayUnits(n - 1) }

(***************************************************************************)
(* The unit of the C declarations                                          *)
(*     typedef struct S *ptrs_t[3];                                        *)
(*     struct S { ptrs_t ( *q )[2]; };                                     *)
(* The array type of ptrs_t comes first, then the pointer to S, S with its *)
(* member q, the pointer q is, the array of two ptrs_t it points to, and   *)
(* the typedef ptrs_t.                                                     *)
(***************************************************************************)
PtrsUnit ==
    << Die("DW_TAG_array_type", NoName, None,
           TypeAttr("DW_FORM_ref4", FirstDie + 1), << Subrange(2) >>),
       Die("DW_TAG_pointer_type", NoName, 4,
           TypeAttr("DW_FORM_ref4", FirstDie + 2), << >>),
       Die("DW_TAG_structure_type", "S", 4, NoAttr,
           << Member("q", 0, TypeAttr("DW_FORM_ref4", FirstDie + 3)) >>),
       Die("DW_TAG_pointer_type", NoName, 4,
           TypeAttr("DW_FORM_ref4", FirstDie + 4), << >>),
       Die("DW_TAG_array_type", NoName, None,
           TypeAttr("DW_FORM_ref4", FirstDie + 5), << Subrange(1) >>),
       Die("DW_TAG_typedef", "ptrs_t", None,
           TypeAttr("DW_FORM_ref4", FirstDie), << >>) >>

IsWrapper(d) ==
    d.tag \in {"DW_TAG_const_type", "DW_TAG_volatile_type", "DW_TAG_typedef"}

\* The offset a DW_AT_type attribute denotes (DWARF semantics).
RefTarget(attr) ==
    IF attr.form \in RelativeForms THEN attr.value + CuOffset ELSE attr.value

\* The records reached from `off` through wrapper records only.
RECURSIVE WrapperChain(_, _, _)
WrapperChain(ds, off, n) ==
    IF n = 0 \/ off \notin DOMAIN ds THEN {off}
    ELSE IF ~IsWrapper(ds[off]) \/ ds[off].type = NoAttr THEN {off}
    ELSE {off} \cup WrapperChain(ds, RefTarget(ds[off].type), n - 1)

\* No compiler emits a typedef/const/volatile record that is its own
\* definition: a chain of wrappers ends at a record that is not a wrapper.
WellFormed(ds) ==
    \A off \in DOMAIN ds :
        \E o \in WrapperChain(ds, off, Cardinality(DOMAIN ds)) :
            IF o \in DOMAIN ds
            THEN ~IsWrapper(ds[o]) \/ ds[o].type = NoAttr
            ELSE TRUE

(***************************************************************************)
(* TypeInfo objects.  One record shape serves the five dataclasses; a      *)
(* field a class does not declare keeps its default and is never read.     *)
(***************************************************************************)
TypeInfo(kind, name, size) ==
    [kind |-> kind, name |-> name, size |-> size, members |-> << >>,
     mapping |-> << >>, target_type |-> NoNode, element_type |-> NoNode,
     count |-> 0]

PrimitiveType(name, size) == TypeInfo("PrimitiveType", name, size)
StructType(name, size) == TypeInfo("StructType", name, size)
EnumType(name, size) == TypeInfo("EnumType", name, size)
PointerType(name, size) == TypeInfo("PointerType", name, size)
ArrayType(name, size) == TypeInfo("ArrayType", name, size)

StructMember(name, offset, type_info) ==
    [name |-> name, offset |-> offset, type_info |-> type_info]

\* dict assignment d[k] = v
DictSet(d, k, v) == [x \in DOMAIN d \cup {k} |-> IF x = k THEN v ELSE d[x]]

(***************************************************************************)
(* TypeParser                                                              *)
(***************************************************************************)
\* `_decode_name(die.attributes.get('DW_AT_name')) or "<anon>"`
NameOrAnon(name) == IF name = NoName THEN "<anon>" ELSE name

\* `attr.value if attr else 0`
ValueOrZero(attr) == IF attr = None THEN 0 ELSE attr

\* _get_die_from_attribute: the offset looked up for a reference attribute
GetDieFromAttribute(attr, cu_offset) ==
    IF attr.form \in AbsoluteForms THEN attr.value
    ELSE IF attr.form \in RelativeForms THEN attr.value + cu_offset
    ELSE attr.value

\* _get_die_at_offset finds a record, or raises ValueError
DieExists(offset) == offset \in DOMAIN dies

Frame(off) == [die |-> off, pc |-> "entry", node |-> NoNode, i |-> 0]
Top == stack[Len(stack)]
TopDie == dies[Top.die]
Running == stack # << >>
SetTop(f) == [stack EXCEPT ![Len(stack)] = f]
CallRecord(v, h, exc) ==
    [root |-> stack[1].die, result |-> v, nodes |-> Len(h), exc |-> exc]

\* a node that is built and not entered into the cache
Register_Dropped(c, off, id) == c

\* a cache keyed by the name of the record, the first record that bears a
\* name standing for the name
Register_ByName(c, off, id) ==
    LET same == { o \in DOMAIN dies : dies[o].name = dies[off].name }
        first == CHOOSE o \in same : \A x \in same : o <= x
    IN  (first :> id) @@ c

\* self.cache[die.offset] = node
Register(c, off, id) == (off :> id) @@ c

\* `return v` from the running activation, the heap being h
Return(v, h) ==
    /\ retval' = v
    /\ stack' = SubSeq(stack, 1, Len(stack) - 1)
    /\ calls' = IF Len(stack) = 1 THEN Append(calls, CallRecord(v, h, ""))
                ELSE calls
    /\ raised' = raised

\* an exception leaves every activation of parse_type: none catches it
Raise(exc, h) ==
    /\ raised' = exc
    /\ stack' = << >>
    /\ calls' = Append(calls, CallRecord(NoNode, h, exc))
    /\ retval' = retval

\* `self.parse_type(self._get_die_from_attribute(attr, die.cu))`, the
\* running activation continuing as frame f when the callee returns
Descend(attr, f, h) ==
    LET off == GetDieFromAttribute(attr, CuOffset)
    IN  IF ~DieExists(off) THEN Raise("ValueError", h)
        ELSE IF Len(stack) >= RecursionLimit THEN Raise("RecursionError", h)
        ELSE /\ stack' = Append(SetTop(f), Frame(off))
             /\ UNCHANGED <<retval, raised, calls>>

AtEntry == Running /\ Top.pc = "entry"
Uncached == AtEntry /\ Top.die \notin DOMAIN cache

\* a caller invokes parser.parse_type(die)
Call(root) ==
    /\ ~Running
    /\ raised = ""
    /\ Len(calls) < MaxCalls
    /\ stack' = << Frame(root) >>
    /\ UNCHANGED <<dies, heap, cache, retval, raised, calls, others>>

\* a cache hit that resets the members of the node it returns
CacheHit_Reset ==
    /\ AtEntry
    /\ Top.die \in DOMAIN cache
    /\ heap' = [heap EXCEPT ![cache[Top.die]].members = << >>]
    /\ Return(cache[Top.die], heap')
    /\ UNCHANGED <<dies, cache, others>>

\* lines 216-217
CacheHit ==
    /\ AtEntry
    /\ Top.die \in DOMAIN cache
    /\ Return(cache[Top.die], heap)
    /\ UNCHANGED <<dies, heap, cache, others>>

\* lines 225-231: a modifier with a referenced type
StripModifier ==
    /\ Uncached
    /\ IsWrapper(TopDie)
    /\ TopDie.type # NoAttr
    /\ Descend(TopDie.type, [Top EXCEPT !.pc = "modifier_ret"], heap)
    /\ UNCHANGED <<dies, heap, cache, others>>

\* a modifier that enters the node of its type under its own offset
ModifierReturn_Registered ==
    /\ Running
    /\ Top.pc = "modifier_ret"
    /\ cache' = Register(cache, Top.die, retval)
    /\ Return(retval, heap)
    /\ UNCHANGED <<dies, heap, others>>

\* lines 230-231
ModifierReturn ==
    /\ Running
    /\ Top.pc = "modifier_ret"
    /\ Return(retval, heap)
    /\ UNCHANGED <<dies, heap, cache, others>>

\* lines 232-234: a modifier of nothing
ModifierVoid ==
    /\ Uncached
    /\ IsWrapper(TopDie)
    /\ TopDie.type = NoAttr
    /\ heap' = Append(heap, PrimitiveType("void", 0))
    /\ Return(Len(heap'), heap')
    /\ UNCHANGED <<dies, cache, others>>

\* StructBegin without the registration of line 239
StructBegin_Unregistered ==
    /\ Uncached
    /\ TopDie.tag = "DW_TAG_structure_type"
    /\ heap' = Append(heap, StructType(NameOrAnon(TopDie.name),
                                       ValueOrZero(TopDie.byte_size)))
    /\ stack' = SetTop([Top EXCEPT !.pc = "members", !.node = Len(heap'), !.i = 1])
    /\ UNCHANGED <<dies, cache, retval, raised, calls, others>>

\* lines 237-239
StructBegin ==
    /\ Uncached
    /\ TopDie.tag = "DW_TAG_structure_type"
    /\ heap' = Append(heap, StructType(NameOrAnon(TopDie.name),
                                       ValueOrZero(TopDie.byte_size)))
    /\ cache' = Register(cache, Top.die, Len(heap'))
    /\ stack' = SetTop([Top EXCEPT !.pc = "members", !.node = Len(heap'), !.i = 1])
    /\ UNCHANGED <<dies, retval, raised, calls, others>>

InChildren(pc) == Running /\ Top.pc = pc /\ Top.i <= Len(TopDie.children)
PastChildren(pc) == Running /\ Top.pc = pc /\ Top.i > Len(TopDie.children)
TopChild == TopDie.children[Top.i]
NextChild == SetTop([Top EXCEPT !.i = Top.i + 1])

\* lines 241-251: a child that is no member, or a member without a type
StructSkipChild ==
    /\ InChildren("members")
    /\ TopChild.tag # "DW_TAG_member" \/ TopChild.type = NoAttr
    /\ stack' = NextChild
    /\ UNCHANGED <<dies, heap, cache, retval, raised, calls, others>>

\* lines 242-253
StructMemberDescend ==
    /\ InChildren("members")
    /\ TopChild.tag = "DW_TAG_member"
    /\ TopChild.type # NoAttr
    /\ Descend(TopChild.type, [Top EXCEPT !.pc = "member_ret"], heap)
    /\ UNCHANGED <<dies, heap, cache, others>>

\* members.insert(0, ...) in the place of members.append(...)
StructMemberReturn_Prepend ==
    /\ Running
    /\ Top.pc = "member_ret"
    /\ heap' = [heap EXCEPT ![Top.node].members =
                   <<StructMember(NameOrAnon(TopChild.name),
                                  ValueOrZero(TopChild.location),
                                  retval)>> \o @]
    /\ stack' = SetTop([Top EXCEPT !.pc = "members", !.i = Top.i + 1])
    /\ UNCHANGED <<dies, cache, retval, raised, calls, others>>

\* line 254
StructMemberReturn ==
    /\ Running
    /\ Top.pc = "member_ret"
    /\ heap' = [heap EXCEPT ![Top.node].members =
                   Append(@, StructMember(NameOrAnon(TopChild.name),
                                          ValueOrZero(TopChild.location),
                                          retval))]
    /\ stack' = SetTop([Top EXCEPT !.pc = "members", !.i = Top.i + 1])
    /\ UNCHANGED <<dies, cache, retval, raised, calls, others>>

\* line 256
StructEnd ==
    /\ PastChildren("members")
    /\ Return(Top.node, heap)
    /\ UNCHANGED <<dies, heap, cache, others>>

\* lines 258-260
PointerBegin ==
    /\ Uncached
    /\ TopDie.tag = "DW_TAG_pointer_type"
    /\ heap' = Append(heap,
                      PointerType(NameOrAnon(TopDie.name),
                                  IF ValueOrZero(TopDie.byte_size) = 0 THEN 4
                                  ELSE ValueOrZero(TopDie.byte_size)))
    /\ cache' = Register(cache, Top.die, Len(heap'))
    /\ stack' = SetTop([Top EXCEPT !.pc = "pointee", !.node = Len(heap')])
    /\ UNCHANGED <<dies, retval, raised, calls, others>>

\* lines 262-265
PointerDescend ==
    /\ Running
    /\ Top.pc = "pointee"
    /\ TopDie.type # NoAttr
    /\ Descend(TopDie.type, [Top EXCEPT !.pc = "pointee_ret"], heap)
    /\ UNCHANGED <<dies, heap, cache, others>>

\* lines 265-266
PointerReturn ==
    /\ Running
    /\ Top.pc = "pointee_ret"
    /\ heap' = [heap EXCEPT ![Top.node].target_type = retval]
    /\ Return(Top.node, heap')
    /\ UNCHANGED <<dies, cache, others>>

\* lines 263, 266: a pointer to nothing
PointerVoid ==
    /\ Running
    /\ Top.pc = "pointee"
    /\ TopDie.type = NoAttr
    /\ Return(Top.node, heap)
    /\ UNCHANGED <<dies, heap, cache, others>>

\* lines 268-270
ArrayBegin ==
    /\ Uncached
    /\ TopDie.tag = "DW_TAG_array_type"
    /\ heap' = Append(heap, ArrayType(NameOrAnon(TopDie.name),
                                      ValueOrZero(TopDie.byte_size)))
    /\ cache' = Register(cache, Top.die, Len(heap'))
    /\ stack' = SetTop([Top EXCEPT !.pc = "element", !.node = Len(heap')])
    /\ UNCHANGED <<dies, retval, raised, calls, others>>

\* lines 272-275
ArrayDescend ==
    /\ Running
    /\ Top.pc = "element"
    /\ TopDie.type # NoAttr
    /\ Descend(TopDie.type, [Top EXCEPT !.pc = "element_ret"], heap)
    /\ UNCHANGED <<dies, heap, cache, others>>

\* line 275
ArrayElementReturn ==
    /\ Running
    /\ Top.pc = "element_ret"
    /\ heap' = [heap EXCEPT ![Top.node].element_type = retval]
    /\ stack' = SetTop([Top EXCEPT !.pc = "subranges"])
    /\ UNCHANGED <<dies, cache, retval, raised, calls, others>>

\* line 273: an array record without an element type
ArrayNoElement ==
    /\ Running
    /\ Top.pc = "element"
    /\ TopDie.type = NoAttr
    /\ stack' = SetTop([Top EXCEPT !.pc = "subranges"])
    /\ UNCHANGED <<dies, heap, cache, retval, raised, calls, others>>

\* the scan stopping at the first bounded subrange
RECURSIVE ScanSubranges_First(_, _)
ScanSubranges_First(cs, count) ==
    IF cs = << >> THEN count
    ELSE IF Head(cs).tag = "DW_TAG_subrange_type" /\ Head(cs).upper # None
    THEN Head(cs).upper + 1
    ELSE ScanSubranges_First(Tail(cs), count)

\* lines 278-282: the count after the children cs of the array record
RECURSIVE ScanSubranges(_, _)
ScanSubranges(cs, count) ==
    IF cs = << >> THEN count
    ELSE ScanSubranges(Tail(cs),
                       IF Head(cs).tag = "DW_TAG_subrange_type"
                          /\ Head(cs).upper # None
                       THEN Head(cs).upper + 1
                       ELSE count)

\* lines 285-286
RecalculatedSize(array_type, h) ==
    IF /\ array_type.size = 0
       /\ array_type.element_type # NoNode
       /\ array_type.count > 0
    THEN h[array_type.element_type].size * array_type.count
    ELSE array_type.size

\* lines 277-288
ArrayEnd ==
    /\ Running
    /\ Top.pc = "subranges"
    /\ LET counted == [heap[Top.node] EXCEPT
                          !.count = ScanSubranges(TopDie.children, @)]
       IN  heap' = [heap EXCEPT ![Top.node] =
                       [counted EXCEPT !.size = RecalculatedSize(counted, heap)]]
    /\ Return(Top.node, heap')
    /\ UNCHANGED <<dies, cache, others>>

\* lines 294-299: the mapping after the children cs of the enumeration
RECURSIVE ScanEnumerators(_, _)
ScanEnumerators(cs, mapping) ==
    IF cs = << >> THEN mapping
    ELSE ScanEnumerators(Tail(cs),
                         IF Head(cs).tag = "DW_TAG_enumerator"
                            /\ Head(cs).name # NoName
                         THEN DictSet(mapping, Head(cs).const_value, Head(cs).name)
                         ELSE mapping)

\* EnumBegin without the registration of line 292
EnumBegin_Unregistered ==
    /\ Uncached
    /\ TopDie.tag = "DW_TAG_enumeration_type"
    /\ heap' = Append(heap, EnumType(NameOrAnon(TopDie.name),
                                     ValueOrZero(TopDie.byte_size)))
    /\ stack' = SetTop([Top EXCEPT !.pc = "enumerators", !.node = Len(heap')])
    /\ UNCHANGED <<dies, cache, retval, raised, calls, others>>

\* lines 290-292
EnumBegin ==
    /\ Uncached
    /\ TopDie.tag = "DW_TAG_enumeration_type"
    /\ heap' = Append(heap, EnumType(NameOrAnon(TopDie.name),
                                     ValueOrZero(TopDie.byte_size)))
    /\ cache' = Register(cache, Top.die, Len(heap'))
    /\ stack' = SetTop([Top EXCEPT !.pc = "enumerators", !.node = Len(heap')])
    /\ UNCHANGED <<dies, retval, raised, calls, others>>

\* lines 294-300
ParseEnum ==
    /\ Running
    /\ Top.pc = "enumerators"
    /\ heap' = [heap EXCEPT ![Top.node].mapping =
                   ScanEnumerators(TopDie.children, @)]
    /\ Return(Top.node, heap')
    /\ UNCHANGED <<dies, cache, others>>

CachedTags == {"DW_TAG_structure_type", "DW_TAG_pointer_type",
               "DW_TAG_array_type", "DW_TAG_enumeration_type"}

\* lines 302-303: base types and every other tag
Fallback ==
    /\ Uncached
    /\ ~IsWrapper(TopDie)
    /\ TopDie.tag \notin CachedTags
    /\ heap' = Append(heap, PrimitiveType(NameOrAnon(TopDie.name),
                                          ValueOrZero(TopDie.byte_size)))
    /\ Return(Len(heap'), heap')
    /\ UNCHANGED <<dies, cache, others>>

(***************************************************************************)
(* The resolver on every unit of NumDies type records: a caller resolves   *)
(* up to MaxCalls records, one after the other, with one TypeParser.       *)
(***************************************************************************)
ParserIdle ==
    /\ heap = << >>
    /\ cache = << >>
    /\ stack = << >>
    /\ retval = NoNode
    /\ raised = ""
    /\ calls = << >>

InitParse ==
    /\ \E u \in Units(NumDies) \cup ArrayUnits(NumDies) \cup {PtrsUnit} :
          dies = [off \in (CuOffset + 1)..(CuOffset + Len(u)) |-> u[off - CuOffset]]
    /\ WellFormed(dies)
    /\ ParserIdle
    /\ smf = Idle
    /\ rv = Idle
    /\ ui = Idle
    /\ elf = Idle
    /\ fota = Idle
    /\ vm = Idle

NextParse ==
    \/ \E root \in DOMAIN dies : Call(root)
    \/ CacheHit
    \/ StripModifier
    \/ ModifierReturn
    \/ ModifierVoid
    \/ StructBegin
    \/ StructSkipChild
    \/ StructMemberDescend
    \/ StructMemberReturn
    \/ StructEnd
    \/ PointerBegin
    \/ PointerDescend
    \/ PointerReturn
    \/ PointerVoid
    \/ ArrayBegin
    \/ ArrayDescend
    \/ ArrayElementReturn
    \/ ArrayNoElement
    \/ ArrayEnd
    \/ EnumBegin
    \/ ParseEnum
    \/ Fallback

SpecParse == InitParse /\ [][NextParse]_vars

\* One resolution on a new TypeParser: the first call of parse_type and
\* the steps of its activations.
NextFirstCall ==
    \/ \E root \in DOMAIN dies : calls = << >> /\ Call(root)
    \/ CacheHit
    \/ StripModifier
    \/ ModifierReturn
    \/ ModifierVoid
    \/ StructBegin
    \/ StructSkipChild
    \/ StructMemberDescend
    \/ StructMemberReturn
    \/ StructEnd
    \/ PointerBegin
    \/ PointerDescend
    \/ PointerReturn
    \/ PointerVoid
    \/ ArrayBegin
    \/ ArrayDescend
    \/ ArrayElementReturn
    \/ ArrayNoElement
    \/ ArrayEnd
    \/ EnumBegin
    \/ ParseEnum
    \/ Fallback

\* The interpreter runs a started parse_type call to its end.
FairSpecParse == InitParse /\ [][NextFirstCall]_vars /\ WF_vars(NextFirstCall)

(***************************************************************************)
(* The type graph of the unit, as DWARF defines it, and the graph of the   *)
(* TypeInfo objects built from it.                                         *)
(***************************************************************************)
Range(f) == { f[x] : x \in DOMAIN f }

TypedMembers(d) ==
    SelectSeq(d.children, LAMBDA c : c.tag = "DW_TAG_member" /\ c.type # NoAttr)

\* the records a record refers to as member, pointee, element or alias
Referenced(off) ==
    IF off \notin DOMAIN dies THEN { }
    ELSE LET d == dies[off]
         IN  IF d.tag = "DW_TAG_structure_type"
             THEN { RefTarget(c.type) : c \in Range(TypedMembers(d)) }
             ELSE IF d.tag \in {"DW_TAG_pointer_type", "DW_TAG_array_type"}
                     \/ IsWrapper(d)
             THEN { RefTarget(d.type) } \ { RefTarget(NoAttr) }
             ELSE { }

RECURSIVE ReachSet(_, _)
ReachSet(S, n) ==
    IF n = 0 THEN S
    ELSE ReachSet(S \cup UNION { Referenced(o) : o \in S }, n - 1)

NumRecords == Cardinality(DOMAIN dies)

\* record b is record a or is referred to from it, through any chain
Reaches(a, b) == b \in ReachSet({a}, NumRecords)

Acyclic == \A o \in DOMAIN dies : o \notin ReachSet(Referenced(o), NumRecords)

\* the record a chain of const/volatile/typedef records stands for
RECURSIVE Under(_, _)
Under(off, n) ==
    IF n = 0 \/ off \notin DOMAIN dies THEN off
    ELSE IF IsWrapper(dies[off]) /\ dies[off].type # NoAttr
    THEN Under(RefTarget(dies[off].type), n - 1)
    ELSE off

Unwrapped(off) == Under(off, NumRecords)

IsTag(off, tag) == off \in DOMAIN dies /\ dies[off].tag = tag

NodeRefs(id) ==
    ({ heap[id].target_type, heap[id].element_type }
        \cup { m.type_info : m \in Range(heap[id].members) }) \ { NoNode }

RECURSIVE NodeReachSet(_, _)
NodeReachSet(S, n) ==
    IF n = 0 THEN S
    ELSE NodeReachSet(S \cup UNION { NodeRefs(id) : id \in S }, n - 1)

NodeReaches(a, b) == b \in NodeReachSet({a}, Len(heap))

\* the top-level calls that returned a node
Returned == { k \in 1..Len(calls) : calls[k].exc = "" }

\* no activation is still filling in node id
Finished(id) == \A k \in 1..Len(stack) : stack[k].node # id

\* the arrays whose resolution has returned, as <<record offset, node>>
ResolvedArrays ==
    { <<off, cache[off]>> : off \in
        { o \in DOMAIN cache : /\ dies[o].tag = "DW_TAG_array_type"
                               /\ raised = ""
                               /\ Finished(cache[o]) } }

(***************************************************************************)
(* C1: cycle safety                                                        *)
(***************************************************************************)
\* The members k of the struct record `root` that are pointers, as
\* <<k, pointer record>>, k counting the members that carry a type.
PointerMembers(root) ==
    LET ms == TypedMembers(dies[root])
    IN  { <<k, Unwrapped(RefTarget(ms[k].type))>> : k \in
            { j \in 1..Len(ms) :
                LET p == Unwrapped(RefTarget(ms[j].type))
                IN  IsTag(p, "DW_TAG_pointer_type") /\ dies[p].type # NoAttr } }

StructCalls ==
    { k \in Returned : IsTag(calls[k].root, "DW_TAG_structure_type") }

\* the PointerType stored for typed member k of the struct call c returned
MemberNode(c, k) == heap[heap[c.result].members[k].type_info]

\* C1 as claimed: resolving a struct record with a pointer-typed member
\* whose referenced type is that struct, directly or through any chain of
\* structs, pointers, arrays and qualifiers, stores for that member a
\* PointerType whose target_type is the very StructType returned.
C1_TargetIsStructThroughAnyChain ==
    \A c \in StructCalls : \A km \in PointerMembers(calls[c].root) :
        Reaches(RefTarget(dies[km[2]].type), calls[c].root)
            => MemberNode(calls[c], km[1]).target_type = calls[c].result

\* C1 as amended, the part a state decides: the target is the very
\* StructType when the pointer refers to the struct directly or through
\* qualifiers; through any longer chain the nodes lead from the member's
\* PointerType back to the very StructType; no call exhausts the stack.
C1_CycleClosesOnSameNode ==
    /\ raised # "RecursionError"
    /\ \A c \in StructCalls : \A km \in PointerMembers(calls[c].root) :
          /\ Unwrapped(RefTarget(dies[km[2]].type)) = calls[c].root
                => MemberNode(calls[c], km[1]).target_type = calls[c].result
          /\ Reaches(RefTarget(dies[km[2]].type), calls[c].root)
                => NodeReaches(heap[calls[c].result].members[km[1]].type_info,
                               calls[c].result)

\* C1 (amended): resolving a struct record with a pointer-typed member that
\* refers back to the struct terminates without exhausting the stack; the
\* member's PointerType has the very StructType returned as target_type
\* when the pointer refers to the struct directly or through qualifiers,
\* and leads back to it through its nodes for any longer chain.
C1_CycleSafety == [](C1_CycleClosesOnSameNode) /\ (Running ~> ~Running)

\* a struct whose pointer member refers back to it through a qualifier has
\* been resolved, and the member's target is the node returned
C1_Witness ==
    \E c \in StructCalls : \E km \in PointerMembers(calls[c].root) :
        /\ IsWrapper(dies[RefTarget(dies[km[2]].type)])
        /\ Unwrapped(RefTarget(dies[km[2]].type)) = calls[c].root
        /\ MemberNode(calls[c], km[1]).target_type = calls[c].result

(***************************************************************************)
(* C2: idempotence                                                         *)
(***************************************************************************)
\* pairs of returned calls on the same record, the second one later
Repeats ==
    { ij \in Returned \X Returned :
        ij[1] < ij[2] /\ calls[ij[1]].root = calls[ij[2]].root }

\* the number of nodes call k constructed
Constructed(k) == calls[k].nodes - (IF k = 1 THEN 0 ELSE calls[k - 1].nodes)

\* C2 as claimed: on an acyclic type graph, resolving a record of any kind
\* twice returns the identical node and the second call constructs none.
C2_SameNodeForEveryKind ==
    Acyclic => \A ij \in Repeats :
        /\ calls[ij[1]].result = calls[ij[2]].result
        /\ Constructed(ij[2]) = 0

\* C2 (amended): on an acyclic type graph, resolving twice a record that
\* is, under its qualifiers, a struct, pointer, array or enum returns the
\* identical node and the second call constructs none; resolving twice a
\* base type (or a qualifier of one, or of nothing) returns two distinct
\* PrimitiveType nodes with equal fields, the second built by the second call.
C2_SameNodeForCachedKinds ==
    Acyclic => \A ij \in Repeats :
        LET a == calls[ij[1]]
            b == calls[ij[2]]
        IN  IF dies[Unwrapped(a.root)].tag \in CachedTags
            THEN a.result = b.result /\ Constructed(ij[2]) = 0
            ELSE /\ a.result # b.result
                 /\ heap[a.result] = heap[b.result]
                 /\ heap[b.result].kind = "PrimitiveType"
                 /\ Constructed(ij[2]) = 1

\* a struct and a base type have each been resolved twice
C2_Witness ==
    /\ Acyclic
    /\ \E ij \in Repeats :
          /\ IsTag(Unwrapped(calls[ij[1]].root), "DW_TAG_structure_type")
          /\ IsWrapper(dies[calls[ij[1]].root])
          /\ calls[ij[1]].result = calls[ij[2]].result

(***************************************************************************)
(* C3: array count                                                         *)
(***************************************************************************)
\* the subrange children of a record that carry an upper bound, in order
BoundedSubranges(d) ==
    SelectSeq(d.children,
              LAMBDA c : c.tag = "DW_TAG_subrange_type" /\ c.upper # None)

\* C3 as claimed: a subrange child with upper bound N-1 gives count N, and
\* count is 0 when no subrange child carries an upper bound.
C3_CountOfEverySubrange ==
    \A a \in ResolvedArrays :
        LET bs == BoundedSubranges(dies[a[1]])
        IN  /\ \A k \in 1..Len(bs) : heap[a[2]].count = bs[k].upper + 1
            /\ bs = << >> => heap[a[2]].count = 0

\* C3 (amended): the resolved count is N for the upper bound N-1 of the
\* last subrange child that carries one (a record has one subrange child
\* per dimension), and 0 when no subrange child carries an upper bound.
C3_CountOfLastSubrange ==
    \A a \in ResolvedArrays :
        LET bs == BoundedSubranges(dies[a[1]])
        IN  heap[a[2]].count = IF bs = << >> THEN 0 ELSE bs[Len(bs)].upper + 1

\* an array of two bounded dimensions has been resolved
C3_Witness ==
    \E a \in ResolvedArrays :
        LET bs == BoundedSubranges(dies[a[1]])
        IN  /\ Len(bs) = 2
            /\ bs[1].upper # bs[2].upper
            /\ heap[a[2]].count = bs[2].upper + 1

(***************************************************************************)
(* C4: array size                                                          *)
(***************************************************************************)
\* C4: an array record without a byte size, with element size E and
\* resolved count N, resolves to size E*N; an array record that declares
\* its byte size keeps it.
C4_ArraySize ==
    \A a \in ResolvedArrays :
        LET d == dies[a[1]]
            t == heap[a[2]]
        IN  /\ d.byte_size = None /\ t.element_type # NoNode
                => t.size = heap[t.element_type].size * t.count
            /\ d.byte_size # None => t.size = d.byte_size

\* C4 fails on the unit of ptrs_t when the array type of ptrs_t is resolved
\* first: the array of two ptrs_t ends with size 0, its element having
\* size 12 and its count being 2.
C4_FailingInput ==
    /\ dies = [off \in (CuOffset + 1)..(CuOffset + Len(PtrsUnit)) |->
                    PtrsUnit[off - CuOffset]]
    /\ Len(calls) >= 1
    /\ calls[1].root = FirstDie
    /\ calls[1].exc = ""
    /\ <<FirstDie + 4, cache[FirstDie + 4]>> \in ResolvedArrays
    /\ heap[cache[FirstDie + 4]].size = 0
    /\ heap[cache[FirstDie + 4]].count = 2
    /\ heap[heap[cache[FirstDie + 4]].element_type].size = 12

(***************************************************************************)
(* read_smf_state_name                                                     *)
(***************************************************************************)
SymbolInfo(state_var_addr, states_array_addr, state_var_type, enum_map) ==
    [state_var_addr |-> state_var_addr, states_array_addr |-> states_array_addr,
     state_var_type |-> state_var_type, enum_map |-> enum_map]

\* the stride tried when the default one does not divide the offset
SecondaryStride == 16

\* Size of 'struct smf_state' in bytes.
SMF_STATE_SIZE_DEFAULT == 20

\* `not x` for an Optional[int]
Not(x) == x = None \/ x = 0

\* line 405, without the test of the states array
NoState_PointerOnly(info, current_state_ptr) == current_state_ptr = 0

\* line 405
NoState(info, current_state_ptr) ==
    Not(info.states_array_addr) \/ current_state_ptr = 0

\* the heuristic trying the 16-byte stride first
StateIndex_SixteenFirst(offset) ==
    IF offset % SecondaryStride = 0 THEN offset \div SecondaryStride
    ELSE IF offset % SMF_STATE_SIZE_DEFAULT = 0 THEN offset \div SMF_STATE_SIZE_DEFAULT
    ELSE -1

\* lines 414-418
StateIndex(offset) ==
    IF offset % SMF_STATE_SIZE_DEFAULT = 0 THEN offset \div SMF_STATE_SIZE_DEFAULT
    ELSE IF offset % SecondaryStride = 0 THEN offset \div SecondaryStride
    ELSE -1

\* the lookup without a name for an unmapped index
StateLabel_NoDefault(enum_map, index) ==
    IF index \in DOMAIN enum_map THEN enum_map[index] ELSE "None"

\* line 421: info.enum_map.get(index, f"State {index}")
StateLabel(enum_map, index) ==
    IF index \in DOMAIN enum_map THEN enum_map[index] ELSE "State " \o Str(index)

\* lines 413-423
NameAtOffset(info, current_state_ptr, offset) ==
    LET index == StateIndex(offset)
    IN  IF index >= 0 THEN StateLabel(info.enum_map, index)
        ELSE "0x" \o Hex(current_state_ptr)

\* the function without the test of lines 410-411
read_smf_state_name_Unchecked(info, current_state_ptr) ==
    IF NoState(info, current_state_ptr) THEN "NULL"
    ELSE NameAtOffset(info, current_state_ptr,
                      current_state_ptr - info.states_array_addr)

\* lines 403-423
read_smf_state_name(info, current_state_ptr) ==
    IF NoState(info, current_state_ptr) THEN "NULL"
    ELSE LET offset == current_state_ptr - info.states_array_addr
         IN  IF offset < 0 THEN "Unknown (0x" \o Hex(current_state_ptr) \o ")"
             ELSE NameAtOffset(info, current_state_ptr, offset)

(***************************************************************************)
(* The mapper on every states-array base, enum map and pointer value.      *)
(***************************************************************************)
MaxOffset == 100        \* how far past the base a pointer value lies
MaxBelow == 40          \* how far before the base a pointer value lies

\* where a linker places the states array; None when it was not located
ArrayBases == {None, 4096, 536871168}

EnumMaps ==
    { << >>,
      0 :> "STATE_A" @@ 1 :> "STATE_B",
      0 :> "STATE_INIT" @@ 2 :> "STATE_RUNNING" @@ 5 :> "STATE_ERROR" }

PointerValues ==
    {0} \cup { b + d : b \in ArrayBases \ {None}, d \in (0 - MaxBelow)..MaxOffset }

NoUnit == << >>

InitSmf ==
    /\ \E base \in ArrayBases, map \in EnumMaps, ptr \in PointerValues :
          smf = [phase |-> "ready",
                 info |-> SymbolInfo(None, base, NoNode, map),
                 current_state_ptr |-> ptr,
                 result |-> ""]
    /\ dies = NoUnit
    /\ ParserIdle
    /\ rv = Idle
    /\ ui = Idle
    /\ elf = Idle
    /\ fota = Idle
    /\ vm = Idle

\* state_name = read_smf_state_name(jlink, info, current_ptr)
CallReadSmfStateName ==
    /\ smf.phase = "ready"
    /\ smf' = [smf EXCEPT !.phase = "done",
                          !.result = read_smf_state_name(smf.info,
                                                         smf.current_state_ptr)]
    /\ UNCHANGED <<parseVars, fota, vm, rv, ui, elf>>

NextSmf == CallReadSmfStateName

SpecSmf == InitSmf /\ [][NextSmf]_vars

\* the call has returned; its inputs and its result
SmfDone == smf.phase = "done"
SmfBase == smf.info.states_array_addr
SmfMap == smf.info.enum_map
SmfPtr == smf.current_state_ptr
SmfOffset == SmfPtr - SmfBase
SmfBaseKnown == SmfDone /\ SmfBase # None

\* the name the spec gives index i: its enum name, or "State <i>"
ExpectedLabel(i) ==
    IF i \in DOMAIN SmfMap THEN SmfMap[i] ELSE "State " \o Str(i)

\* the call computed an index: the pointer lies a multiple of a stride
\* past a known base
SmfIndexed ==
    /\ SmfBaseKnown
    /\ SmfPtr # 0
    /\ SmfOffset >= 0
    /\ SmfOffset % 20 = 0 \/ SmfOffset % 16 = 0

(***************************************************************************)
(* C5: the name of a mapped state                                          *)
(***************************************************************************)
\* C5 as claimed: for a pointer base + i*20 with i a key of the enum map,
\* the result is "<name> (<i>)": "STATE_A (0)" for 0x1000 over base 0x1000.
C5_NameWithIndex ==
    SmfBaseKnown => \A i \in DOMAIN SmfMap :
        SmfPtr = SmfBase + i * 20
            => smf.result = SmfMap[i] \o " (" \o Str(i) \o ")"

\* C5 (amended): for a pointer base + i*20 with i a key of the enum map,
\* the result is the mapped name alone: with base 0x1000 and the map
\* {0: STATE_A, 1: STATE_B}, 0x1000 gives "STATE_A" and 0x1014 "STATE_B".
C5_NameOfMappedState ==
    /\ SmfBaseKnown => \A i \in DOMAIN SmfMap :
          SmfPtr = SmfBase + i * 20 => smf.result = SmfMap[i]
    /\ SmfDone /\ SmfBase = 4096 /\ SmfMap = (0 :> "STATE_A" @@ 1 :> "STATE_B")
          => /\ SmfPtr = 4096 => smf.result = "STATE_A"
             /\ SmfPtr = 4116 => smf.result = "STATE_B"

\* pointer 0x1014 over base 0x1000 has been named STATE_B
C5_Witness ==
    /\ SmfDone
    /\ SmfBase = 4096
    /\ SmfPtr = 4116
    /\ 1 \in DOMAIN SmfMap
    /\ smf.result = "STATE_B"

(***************************************************************************)
(* C6: unknown states array                                                *)
(***************************************************************************)
\* C6 as claimed: with the base unknown and a non-zero pointer the result
\* is "Unknown (0x<hex>)", and "NULL" is returned only for pointer 0.
C6_UnknownBaseGivesUnknown ==
    SmfDone =>
        /\ SmfBase = None /\ SmfPtr # 0
              => smf.result = "Unknown (0x" \o Hex(SmfPtr) \o ")"
        /\ smf.result = "NULL" => SmfPtr = 0

\* C6 (amended): with the base unknown the result is "NULL" for every
\* pointer value; "NULL" is returned exactly when the base is unknown or
\* the pointer is 0.
C6_UnknownBaseGivesNull ==
    SmfDone =>
        /\ SmfBase = None => smf.result = "NULL"
        /\ smf.result = "NULL" <=> (SmfBase = None \/ SmfPtr = 0)

\* a non-zero pointer has been named without a states array
C6_Witness ==
    SmfDone /\ SmfBase = None /\ SmfPtr # 0 /\ smf.result = "NULL"

(***************************************************************************)
(* C7: the stride heuristic                                                *)
(***************************************************************************)
\* C7: for a non-negative offset the index is offset/20 when 20 divides
\* the offset, else offset/16 when 16 divides it, else there is no index
\* and the result is the pointer in hex; 20 wins when both divide.
C7_StrideHeuristic ==
    SmfBaseKnown /\ SmfPtr # 0 /\ SmfOffset >= 0 =>
        smf.result = IF SmfOffset % 20 = 0 THEN ExpectedLabel(SmfOffset \div 20)
                     ELSE IF SmfOffset % 16 = 0 THEN ExpectedLabel(SmfOffset \div 16)
                     ELSE "0x" \o Hex(SmfPtr)

\* an offset that both strides divide has been decoded with the 20-byte one
C7_Witness ==
    /\ SmfIndexed
    /\ SmfOffset > 0
    /\ SmfOffset % 20 = 0
    /\ SmfOffset % 16 = 0
    /\ smf.result = ExpectedLabel(SmfOffset \div 20)
    /\ smf.result # ExpectedLabel(SmfOffset \div 16)

(***************************************************************************)
(* C8: the name of an index                                                *)
(***************************************************************************)
\* C8: a computed index that is a key of the enum map gives the map's
\* entry, any other computed index gives "State <index>".
C8_MappedOrSynthesized ==
    SmfIndexed =>
        LET i == IF SmfOffset % 20 = 0 THEN SmfOffset \div 20 ELSE SmfOffset \div 16
        IN  /\ i \in DOMAIN SmfMap => smf.result = SmfMap[i]
            /\ i \notin DOMAIN SmfMap => smf.result = "State " \o Str(i)

\* an index the enum map lacks has been named "State 3"
C8_Witness ==
    /\ SmfIndexed
    /\ SmfOffset = 60
    /\ 3 \notin DOMAIN SmfMap
    /\ smf.result = "State 3"

(***************************************************************************)
(* C9: no index for a null pointer or a pointer before the array           *)
(***************************************************************************)
\* the names an index can give
IndexNames ==
    Range(SmfMap) \cup { "State " \o Str(i) : i \in 0..(MaxOffset + MaxBelow) }

\* C9: pointer 0 gives "NULL"; a pointer below the base gives the marker
\* "Unknown (0x<hex>)"; neither gives an enum name or "State <n>".
C9_NoIndexOutsideArray ==
    SmfDone =>
        /\ SmfPtr = 0 => smf.result = "NULL"
        /\ SmfBase # None /\ SmfPtr # 0 /\ SmfPtr < SmfBase
              => smf.result = "Unknown (0x" \o Hex(SmfPtr) \o ")"
        /\ SmfPtr = 0 \/ (SmfBase # None /\ SmfPtr < SmfBase)
              => smf.result \notin IndexNames

\* a pointer one 20-byte record before the base has been named
C9_Witness ==
    /\ SmfBaseKnown
    /\ SmfOffset = 0 - 20
    /\ smf.result = "Unknown (0x" \o Hex(SmfPtr) \o ")"

(***************************************************************************)
(* read_value: one value of the target's memory rendered as text.          *)
(***************************************************************************)
\* the characters chr(32) .. chr(95) and chr(97) .. chr(126); no byte of
\* the model is 96
Ascii ==
    <<  " ", "!", "\"", "#", "$", "%", "&", "'", "(", ")", "*", "+",
       ",", "-", ".", "/", "0", "1", "2", "3", "4", "5", "6", "7",
       "8", "9", ":", ";", "<", "=", ">", "?", "@", "A", "B", "C",
       "D", "E", "F", "G", "H", "I", "J", "K", "L", "M", "N", "O",
       "P", "Q", "R", "S", "T", "U", "V", "W", "X", "Y", "Z", "[",
       "\\", "]", "^", "_" >>

AsciiLower ==
    << "a", "b", "c", "d", "e", "f", "g", "h", "i", "j", "k", "l", "m",
       "n", "o", "p", "q", "r", "s", "t", "u", "v", "w", "x", "y", "z",
       "{", "|", "}", "~" >>

chr(val) == IF val < 96 THEN Ascii[val - 31] ELSE AsciiLower[val - 96]

LowerDigits == <<"0", "1", "2", "3", "4", "5", "6", "7", "8", "9",
                 "a", "b", "c", "d", "e", "f">>

\* f"{n:x}"
RECURSIVE LowerHex(_)
LowerHex(n) ==
    IF n < 16 THEN LowerDigits[n + 1]
    ELSE LowerHex(n \div 16) \o LowerDigits[(n % 16) + 1]

\* `needle in s` for two str
Contains(s, needle) ==
    \E i \in 1..(Len(s) - Len(needle) + 1) :
        SubSeq(s, i, i + Len(needle) - 1) = needle

\* int.from_bytes(data, byteorder='little')
\* the bytes taken most significant first
RECURSIVE FromBytes_BigEndian(_)
FromBytes_BigEndian(data) ==
    IF data = << >> THEN 0
    ELSE data[Len(data)] + 256 * FromBytes_BigEndian(SubSeq(data, 1, Len(data) - 1))

RECURSIVE FromBytes(_)
FromBytes(data) ==
    IF data = << >> THEN 0 ELSE Head(data) + 256 * FromBytes(Tail(data))

RECURSIVE Joined(_)
Joined(data) ==
    IF data = << >> THEN ""
    ELSE IF Len(data) = 1 THEN Str(data[1])
    ELSE Str(Head(data)) \o ", " \o Joined(Tail(data))

\* f"{list(data)}"
ListRepr(data) == "[" \o Joined(data) \o "]"

\* data.index(0), as a count of the elements before the first 0
IndexOfZero(data) ==
    (CHOOSE i \in 1..Len(data) : data[i] = 0 /\ \A j \in 1..(i - 1) : data[j] # 0) - 1

\* What an expression evaluates to: a value, or an exception carrying
\* str(e); with it, the calls made on the probe while evaluating it.
Value(v) == [exc |-> "", value |-> v, reads |-> << >>]
Error(msg) == [exc |-> msg, value |-> "", reads |-> << >>]
Data(d) == [exc |-> "", data |-> d]
Fault(msg) == [exc |-> msg, data |-> << >>]

\* bytes(data).decode('utf-8') for data of ASCII bytes and bytes that begin
\* no UTF-8 sequence (0x80..0xBF, 0xF8..0xFF); pos counts from 1
RECURSIVE Decode(_, _)
Decode(data, pos) ==
    IF pos > Len(data) THEN Value("")
    ELSE IF data[pos] >= 128
         THEN Error("'utf-8' codec can't decode byte 0x" \o LowerHex(data[pos])
                    \o " in position " \o Str(pos - 1) \o ": invalid start byte")
    ELSE LET rest == Decode(data, pos + 1)
         IN  IF rest.exc # "" THEN rest
             ELSE Value(chr(data[pos]) \o rest.value)

\* the list of the bytes, whatever they hold
TextOrList_ListOnly(data) == Value(ListRepr(data))

\* lines 473-483: the text of a byte array, or the list of its bytes
TextOrList(data) ==
    IF 0 \in Range(data)
    THEN LET s == Decode(SubSeq(data, 1, IndexOfZero(data)), 1)
         IN  IF s.exc = "" THEN Value("\"" \o s.value \o "\"")
             ELSE Value(ListRepr(data))
    ELSE Value(ListRepr(data))

MemBase == 536870912    \* address of the first byte of the target's RAM
MemSize == 4            \* bytes of RAM the probe can read

\* jlink.memory_read(addr, num_units): the bytes, or the probe library's
\* exception when the link is down or the range is not readable (outside
\* the RAM, or holding an address the debug port may not access)
memory_read(jlink, addr, num_units) ==
    IF ~jlink.connected THEN Fault(jlink.message)
    ELSE IF addr < MemBase \/ addr + num_units > MemBase + Len(jlink.ram)
         THEN Fault(jlink.message)
    ELSE IF \E a \in addr..(addr + num_units - 1) : a \in jlink.unreadable
         THEN Fault(jlink.message)
    ELSE Data([i \in 1..num_units |-> jlink.ram[addr - MemBase + i]])

\* a call jlink.memory_write(addr, data) of num_units bytes; the inspector
\* makes none
WriteCall(addr, num_units) ==
    [op |-> "memory_write", addr |-> addr, num |-> num_units]

\* a call jlink.memory_read(addr, num_units)
ReadCall(addr, num_units) ==
    [op |-> "memory_read", addr |-> addr, num |-> num_units]

\* outcome r of an evaluation that began with the call `call` on the probe
After(call, r) == [r EXCEPT !.reads = <<call>> \o @]

\* an array displayed without a limit
TooLarge_Never(count) == FALSE

\* line 467: the limit of the array display
TooLarge(count) == count > 16

\* x or 4
Or4(x) == IF x = 0 THEN 4 ELSE x

\* lines 433-489: the body of the try statement, and line 494
TryBody(jlink, address, type_info) ==
    CASE type_info.kind = "PrimitiveType" ->
            IF type_info.size = 0 THEN Value("void")
            ELSE LET r == memory_read(jlink, address, type_info.size)
                     val == FromBytes(r.data)
                 IN  After(ReadCall(address, type_info.size),
                       IF r.exc # "" THEN Error(r.exc)
                       ELSE IF type_info.name = "bool"
                            THEN Value(IF val # 0 THEN "true" ELSE "false")
                       ELSE IF Contains(type_info.name, "char")
                            THEN Value(IF 32 <= val /\ val <= 126
                                       THEN "'" \o chr(val) \o "'" ELSE Str(val))
                       ELSE Value(Str(val) \o " (0x" \o Hex(val) \o ")"))
      [] type_info.kind = "EnumType" ->
            LET r == memory_read(jlink, address, Or4(type_info.size))
                val == FromBytes(r.data)
            IN  After(ReadCall(address, Or4(type_info.size)),
                  IF r.exc # "" THEN Error(r.exc)
                  ELSE Value((IF val \in DOMAIN type_info.mapping
                              THEN type_info.mapping[val] ELSE Str(val))
                             \o " (" \o Str(val) \o ")"))
      [] type_info.kind = "PointerType" ->
            LET r == memory_read(jlink, address, 4)
                val == FromBytes(r.data)
            IN  After(ReadCall(address, 4),
                  IF r.exc # "" THEN Error(r.exc)
                  ELSE IF val = 0 THEN Value("NULL")
                  ELSE Value("0x" \o Hex08(val)))
      [] type_info.kind = "ArrayType" ->
            LET count == type_info.count
            IN  IF TooLarge(count)
                THEN Value("Array[" \o Str(count) \o "] (too large to display)")
                ELSE IF /\ type_info.element_type # NoNode
                        /\ heap[type_info.element_type].kind = "PrimitiveType"
                        /\ heap[type_info.element_type].size = 1
                     THEN LET r == memory_read(jlink, address, count)
                          IN  After(ReadCall(address, count),
                                IF r.exc # "" THEN Error(r.exc)
                                ELSE TextOrList(r.data))
                ELSE Value("Array[" \o Str(count) \o "]")
      [] type_info.kind = "StructType" ->
            Value(type_info.name \o " { ... }")
      [] OTHER -> Value("?")

\* the function without its except clause
read_value_Uncaught(jlink, address, type_info) ==
    TryBody(jlink, address, type_info)

\* lines 426-494
read_value(jlink, address, type_info) ==
    LET r == TryBody(jlink, address, type_info)
    IN  IF r.exc # ""
        THEN [Value("<Error: " \o r.exc \o ">") EXCEPT !.reads = r.reads]
        ELSE r

(***************************************************************************)
(* The renderer on every kind of node, over every content of the readable  *)
(* memory and with the link to the probe up or down.                       *)
(***************************************************************************)
\* a NUL, the first and the last printable character, two letters, a byte
\* that begins no UTF-8 sequence
ByteValues == {0, 32, 65, 66, 126, 255}

\* the messages of the probe library's exceptions
Messages == {"Unspecified error.", "The J-Link DLL is not open."}

\* nodes as the TypeParser builds them, and a bare TypeInfo
RenderTypes ==
    << PrimitiveType("bool", 1),
       PrimitiveType("char", 1),
       PrimitiveType("unsigned char", 1),
       PrimitiveType("short", 2),
       PrimitiveType("int", 4),
       PrimitiveType("void", 0),
       [EnumType("state", 1) EXCEPT
            !.mapping = 0 :> "STATE_INIT" @@ 1 :> "STATE_RUNNING"],
       [EnumType("mode", 0) EXCEPT !.mapping = 0 :> "MODE_OFF"],
       [PointerType("ptr", 4) EXCEPT !.target_type = 5],
       [ArrayType("array", 3) EXCEPT !.element_type = 2, !.count = 3],
       [ArrayType("array", 2) EXCEPT !.element_type = 3, !.count = 2],
       [ArrayType("array", 17) EXCEPT !.element_type = 2, !.count = 17],
       [ArrayType("array", 8) EXCEPT !.element_type = 5, !.count = 2],
       [ArrayType("array", 0) EXCEPT !.element_type = 2],
       ArrayType("array", 0),
       StructType("node", 8),
       TypeInfo("TypeInfo", "opaque", 0),
       PrimitiveType("uint8_t", 1),
       [ArrayType("array", 4) EXCEPT !.element_type = 2, !.count = 4],
       [ArrayType("array", 16) EXCEPT !.element_type = 3, !.count = 16],
       [ArrayType("array", 68) EXCEPT !.element_type = 5, !.count = 17],
       [ArrayType("array", 136) EXCEPT !.element_type = 16, !.count = 17],
       [ArrayType("array", 0) EXCEPT !.count = 17],
       PrimitiveType("<anon>", 0) >>

Addresses == {MemBase, MemBase + 2}

\* the contents of n bytes of RAM; a 32-bit word at an address of the model
\* is below 2^31, the largest integer TLC computes with
Rams(n) ==
    { ram \in [1..n -> ByteValues] :
        \A addr \in Addresses :
            addr - MemBase + 4 <= n => ram[addr - MemBase + 4] < 128 }

\* the probe: connected, over every content of the RAM, or not connected
Probe(connected, message, ram, unreadable) ==
    [connected |-> connected, message |-> message, ram |-> ram,
     unreadable |-> unreadable]

Probes(n) ==
    { Probe(TRUE, "Unspecified error.", ram, {}) : ram \in Rams(n) }
        \cup { Probe(FALSE, msg, [i \in 1..n |-> 0], {}) : msg \in Messages }

InitRead ==
    /\ \E jlink \in Probes(MemSize),
          ty \in DOMAIN RenderTypes, addr \in Addresses :
          rv = [phase |-> "ready",
                jlink |-> jlink,
                address |-> addr,
                type_info |-> ty,
                outcome |-> Value("")]
    /\ heap = RenderTypes
    /\ dies = NoUnit
    /\ cache = << >>
    /\ stack = << >>
    /\ retval = NoNode
    /\ raised = ""
    /\ calls = << >>
    /\ smf = Idle
    /\ ui = Idle
    /\ elf = Idle
    /\ fota = Idle
    /\ vm = Idle

\* val_str = read_value(jlink, member_addr, member.type_info)
CallReadValue ==
    /\ rv.phase = "ready"
    /\ rv' = [rv EXCEPT !.phase = "done",
                        !.outcome = read_value(rv.jlink, rv.address,
                                               heap[rv.type_info])]
    /\ UNCHANGED <<parseVars, fota, vm, smf, ui, elf>>

NextRead == CallReadValue

SpecRead == InitRead /\ [][NextRead]_vars

\* the call has ended; its inputs and what was read
ReadDone == rv.phase = "done"
ReadType == heap[rv.type_info]
IsByteArray ==
    /\ ReadType.kind = "ArrayType"
    /\ ReadType.count <= 16
    /\ ReadType.element_type # NoNode
    /\ heap[ReadType.element_type].kind = "PrimitiveType"
    /\ heap[ReadType.element_type].size = 1

\* the bytes the call asks the probe for; 0 when it reads nothing
BytesRead ==
    CASE ReadType.kind = "PrimitiveType" -> ReadType.size
      [] ReadType.kind = "EnumType" -> IF ReadType.size = 0 THEN 4 ELSE ReadType.size
      [] ReadType.kind = "PointerType" -> 4
      [] IsByteArray -> ReadType.count
      [] OTHER -> 0

ReadsMemory ==
    \/ ReadType.kind \in {"EnumType", "PointerType"}
    \/ ReadType.kind = "PrimitiveType" /\ ReadType.size # 0
    \/ IsByteArray

ReadFails ==
    /\ ReadsMemory
    /\ \/ ~rv.jlink.connected
       \/ rv.address + BytesRead > MemBase + MemSize

\* the bytes of a byte array were read and hold, before their first NUL, a
\* byte that is no UTF-8 text
DecodeFails ==
    /\ IsByteArray
    /\ ~ReadFails
    /\ LET data == [i \in 1..ReadType.count |->
                        rv.jlink.ram[rv.address - MemBase + i]]
       IN  /\ 0 \in Range(data)
           /\ \E i \in 1..Len(data) :
                 /\ data[i] >= 128
                 /\ \A j \in 1..i : data[j] # 0

IsErrorMarker(s) ==
    /\ Len(s) >= 9
    /\ SubSeq(s, 1, 8) = "<Error: "
    /\ SubSeq(s, Len(s), Len(s)) = ">"

(***************************************************************************)
(* C10: read_value is total                                                *)
(***************************************************************************)
\* C10 as claimed: read_value returns a string and never raises, and when
\* the memory read or the decode of the value fails the string is a marker
\* "<Error: ...>".
C10_ErrorMarkerOnEveryFailure ==
    ReadDone =>
        /\ rv.outcome.exc = ""
        /\ ReadFails \/ DecodeFails => IsErrorMarker(rv.outcome.value)

\* C10 (amended): read_value returns a string and never raises; when the
\* memory read fails the string is "<Error: " followed by the exception's
\* message and ">"; when the bytes of a byte array are no UTF-8 text before
\* their first NUL the string is the list of the bytes, not an error marker.
C10_TotalWithMarkerOnReadFailure ==
    ReadDone =>
        /\ rv.outcome.exc = ""
        /\ ReadFails => rv.outcome.value = "<Error: " \o rv.jlink.message \o ">"
        /\ DecodeFails =>
              /\ ~IsErrorMarker(rv.outcome.value)
              /\ SubSeq(rv.outcome.value, 1, 1) = "["
        /\ ~ReadFails /\ ~DecodeFails => ~IsErrorMarker(rv.outcome.value)

\* a read of a pointer has failed and has been rendered as the marker
C10_Witness ==
    /\ ReadDone
    /\ ReadType.kind = "PointerType"
    /\ ReadFails
    /\ rv.outcome.exc = ""
    /\ IsErrorMarker(rv.outcome.value)

(***************************************************************************)
(* C11: the rendering of a primitive                                       *)
(***************************************************************************)
\* the unsigned integer held, least significant byte first, by the n bytes of
\* RAM at the address read
WordAt(n) ==
    LET b(i) == IF i <= n THEN rv.jlink.ram[rv.address - MemBase + i] ELSE 0
    IN  b(1) + 256 * b(2) + 65536 * b(3) + 16777216 * b(4)

PrimitiveRead ==
    /\ ReadDone
    /\ ReadType.kind = "PrimitiveType"
    /\ ReadType.size # 0
    /\ ~ReadFails

\* C11: read_value on a primitive of size 0 returns "void" and reads no
\* memory; on any other primitive it reads `size` bytes at the address and
\* renders their little-endian unsigned value: "true"/"false" (non-zero /
\* zero) when the name is "bool", the quoted character for 32..126 and the
\* decimal number otherwise when the name contains "char", and
\* "<value> (0x<HEX>)" for every other name.
C11_PrimitiveRendering ==
    /\ ReadDone /\ ReadType.kind = "PrimitiveType" /\ ReadType.size = 0 =>
          /\ rv.outcome.value = "void"
          /\ rv.outcome.reads = << >>
    /\ PrimitiveRead =>
          LET val == WordAt(ReadType.size)
              out == rv.outcome.value
          IN  /\ rv.outcome.reads = <<ReadCall(rv.address, ReadType.size)>>
              /\ ReadType.name = "bool" =>
                    out = IF val # 0 THEN "true" ELSE "false"
              /\ ReadType.name # "bool" /\ Contains(ReadType.name, "char") =>
                    /\ 32 <= val /\ val <= 126 =>
                          /\ Len(out) = 3
                          /\ out = "'" \o chr(val) \o "'"
                    /\ val = 32 => out = "' '"
                    /\ val = 65 => out = "'A'"
                    /\ val = 126 => out = "'~'"
                    /\ val < 32 \/ val > 126 => out = Str(val)
                    /\ val = 0 => out = "0"
                    /\ val = 255 => out = "255"
              /\ ReadType.name # "bool" /\ ~Contains(ReadType.name, "char") =>
                    /\ out = Str(val) \o " (0x" \o Hex(val) \o ")"
                    /\ val = 65 => out = "65 (0x41)"
                    /\ val = 16961 => out = "16961 (0x4241)"

\* a two-byte primitive was read from the bytes 0x41, 0x42
C11_Witness ==
    /\ PrimitiveRead
    /\ ReadType.name = "short"
    /\ WordAt(2) = 16961
    /\ rv.outcome.value = "16961 (0x4241)"

(***************************************************************************)
(* C12: the rendering of a byte array                                      *)
(***************************************************************************)
ArrayBytes ==
    [i \in 1..ReadType.count |-> rv.jlink.ram[rv.address - MemBase + i]]

ByteArrayRead == ReadDone /\ IsByteArray /\ ~ReadFails

\* the bytes before the first zero of data
BeforeZero(data) ==
    LET z == CHOOSE i \in 1..Len(data) :
                 data[i] = 0 /\ \A j \in 1..(i - 1) : data[j] # 0
    IN  SubSeq(data, 1, z - 1)

RECURSIVE Text(_)
Text(data) == IF data = << >> THEN "" ELSE chr(Head(data)) \o Text(Tail(data))

\* C12: read_value on an array of at most 16 elements of a one-byte
\* primitive reads exactly `count` bytes; when a zero byte is among them and
\* the bytes before the first zero are UTF-8 text the result is that text in
\* double quotes; when there is no zero byte, or they are no UTF-8 text,
\* the result is the list of the byte values.
C12_ByteArrayRendering ==
    ByteArrayRead =>
        LET data == ArrayBytes
            out == rv.outcome.value
        IN  /\ rv.outcome.reads = <<ReadCall(rv.address, ReadType.count)>>
            /\ 0 \in Range(data) /\ ~DecodeFails =>
                  out = "\"" \o Text(BeforeZero(data)) \o "\""
            /\ data = <<65, 66, 0, 0>> => out = "\"AB\""
            /\ 0 \notin Range(data) \/ DecodeFails => out = ListRepr(data)
            /\ data = <<65, 66, 32>> => out = "[65, 66, 32]"
            /\ data = <<255, 0>> => out = "[255, 0]"

\* the bytes 0x41, 0x42, 0, 0 were read and rendered as "AB" in quotes
C12_Witness ==
    /\ ByteArrayRead
    /\ ArrayBytes = <<65, 66, 0, 0>>
    /\ rv.outcome.value = "\"AB\""

(***************************************************************************)
(* C13: the cap of the array display                                       *)
(***************************************************************************)
\* C13: read_value on an array of more than 16 elements, whatever its
\* element type, returns exactly "Array[<count>] (too large to display)" and
\* reads no memory.
C13_LargeArrayNotRead ==
    ReadDone /\ ReadType.kind = "ArrayType" /\ ReadType.count > 16 =>
        /\ rv.outcome.exc = ""
        /\ rv.outcome.value = "Array[" \o Str(ReadType.count)
                                  \o "] (too large to display)"
        /\ ReadType.count = 17 =>
              rv.outcome.value = "Array[17] (too large to display)"
        /\ rv.outcome.reads = << >>

\* an array of 17 one-byte elements was rendered over a connected probe
C13_Witness ==
    /\ ReadDone
    /\ ReadType.kind = "ArrayType"
    /\ ReadType.count = 17
    /\ ReadType.element_type # NoNode
    /\ heap[ReadType.element_type].size = 1
    /\ rv.jlink.connected
    /\ rv.outcome.value = "Array[17] (too large to display)"

(***************************************************************************)
(* The interactive inspector: print_summary, inspect_module_detail and     *)
(* print_struct over a connected probe.  What an operation prints is a     *)
(* sequence of lines; with it go the calls it made on the probe.           *)
(***************************************************************************)
Printed(lines, made) == [lines |-> lines, calls |-> made]

\* the two outputs one after the other
Then(a, b) == Printed(a.lines \o b.lines, a.calls \o b.calls)

RECURSIVE Repeat(_, _)
Repeat(c, n) == IF n <= 0 THEN "" ELSE c \o Repeat(c, n - 1)

\* f"{s:<{w}}"
LJust(s, w) == s \o Repeat(" ", w - Len(s))

\* a call jlink.memory_read32(addr, num_units)
Read32Call(addr, num_units) ==
    [op |-> "memory_read32", addr |-> addr, num |-> num_units]

\* the words read as bytes
memory_read32_Bytes(jlink, addr, num_units) ==
    memory_read(jlink, addr, num_units)

\* jlink.memory_read32(addr, num_units): the 32-bit words of the target
memory_read32(jlink, addr, num_units) ==
    LET r == memory_read(jlink, addr, 4 * num_units)
    IN  IF r.exc # "" THEN r
        ELSE Data([w \in 1..num_units |->
                      FromBytes(SubSeq(r.data, 4 * w - 3, 4 * w))])

\* the target's RAM after a call on the probe: a read leaves it as it is, a
\* write stores (zeroes, here) the bytes it addresses
Effect(ram, call) ==
    IF call.op = "memory_write"
    THEN [i \in DOMAIN ram |->
             IF call.addr - MemBase < i /\ i <= call.addr - MemBase + call.num
             THEN 0 ELSE ram[i]]
    ELSE ram

RECURSIVE Effects(_, _)
Effects(ram, made) ==
    IF made = << >> THEN ram ELSE Effects(Effect(ram, Head(made)), Tail(made))

RECURSIVE MaxNameLen(_)
MaxNameLen(members) ==
    IF members = << >> THEN 0
    ELSE LET rest == MaxNameLen(Tail(members))
         IN  IF Len(Head(members).name) > rest THEN Len(Head(members).name) ELSE rest

\* f"{prefix}{member.name:<{max_name_len}} : {val_str}"
MemberLine(prefix, name, max_name_len, val_str) ==
    prefix \o LJust(name, max_name_len) \o " : " \o val_str

RECURSIVE print_struct(_, _, _, _, _)
RECURSIVE PrintMembers(_, _, _, _, _, _)

\* a dump that goes on, two levels deep, into the struct a pointer member
\* points to
PrintValue_Following(jlink, member_addr, struct_type, info, indent, member) ==
    LET prefix == Repeat(" ", indent)
        ty == heap[member.type_info]
        val == read_value(jlink, member_addr, ty)
        line == MemberLine(prefix, member.name,
                           MaxNameLen(struct_type.members), val.value)
        r == memory_read(jlink, member_addr, 4)
    IN  IF ty.kind = "StructType" /\ ty.name # "smf_ctx"
        THEN Then(Printed(<<line, prefix \o "  {">>, val.reads),
                  Then(print_struct(jlink, member_addr, ty, info, indent + 4),
                       Printed(<<prefix \o "  }">>, << >>)))
        ELSE IF /\ ty.kind = "PointerType"
                /\ ty.target_type # NoNode
                /\ heap[ty.target_type].kind = "StructType"
                /\ r.exc = ""
                /\ indent < 8
        THEN Then(Printed(<<line>>, val.reads),
                  print_struct(jlink, FromBytes(r.data), heap[ty.target_type],
                               info, indent + 4))
        ELSE Printed(<<line>>, val.reads)

\* lines 522-533: a member rendered by read_value, a struct expanded
PrintValue(jlink, member_addr, struct_type, info, indent, member) ==
    LET prefix == Repeat(" ", indent)
        ty == heap[member.type_info]
        val == read_value(jlink, member_addr, ty)
        line == MemberLine(prefix, member.name,
                           MaxNameLen(struct_type.members), val.value)
    IN  IF ty.kind = "StructType" /\ ty.name # "smf_ctx"
        THEN Then(Printed(<<line, prefix \o "  {">>, val.reads),
                  Then(print_struct(jlink, member_addr, ty, info, indent + 4),
                       Printed(<<prefix \o "  }">>, << >>)))
        ELSE Printed(<<line>>, val.reads)

\* one pass of the loop without the special case of lines 510-520
PrintMember_Plain(jlink, address, struct_type, info, indent, member) ==
    PrintValue(jlink, address + member.offset, struct_type, info, indent, member)

\* lines 507-533: one pass of the loop over the members
PrintMember(jlink, address, struct_type, info, indent, member) ==
    LET prefix == Repeat(" ", indent)
        member_addr == address + member.offset
    IN  IF heap[member.type_info].name = "smf_ctx"
        THEN LET r == memory_read(jlink, member_addr, 4)
                 tried == Printed(<< >>, <<ReadCall(member_addr, 4)>>)
             IN  IF r.exc = ""
                 THEN Then(tried,
                           Printed(<<MemberLine(prefix, member.name,
                                        MaxNameLen(struct_type.members),
                                        read_smf_state_name(info, FromBytes(r.data)))>>,
                                   << >>))
                 ELSE Then(tried,
                           PrintValue(jlink, member_addr, struct_type, info,
                                      indent, member))
        ELSE PrintValue(jlink, member_addr, struct_type, info, indent, member)

\* line 506: the members from the i-th on
PrintMembers(jlink, address, struct_type, info, indent, i) ==
    IF i > Len(struct_type.members) THEN Printed(<< >>, << >>)
    ELSE Then(PrintMember(jlink, address, struct_type, info, indent,
                          struct_type.members[i]),
              PrintMembers(jlink, address, struct_type, info, indent, i + 1))

\* lines 497-533
print_struct(jlink, address, struct_type, info, indent) ==
    IF struct_type.members = << >> THEN Printed(<< >>, << >>)
    ELSE PrintMembers(jlink, address, struct_type, info, indent, 1)

\* lines 536-548
inspect_module_detail(jlink, info, module_name) ==
    IF \/ info.state_var_addr = None \/ info.state_var_addr = 0
       \/ info.state_var_type = NoNode
       \/ heap[info.state_var_type].kind # "StructType"
    THEN Printed(<<"No structure information available for "
                       \o module_name \o ".">>, << >>)
    ELSE Then(Printed(<<"", "--- " \o module_name \o " State Details ---",
                        "Address: 0x" \o Hex08(info.state_var_addr),
                        "Type: " \o heap[info.state_var_type].name,
                        Repeat("-", 40)>>, << >>),
              Then(print_struct(jlink, info.state_var_addr,
                                heap[info.state_var_type], info, 0),
                   Printed(<<Repeat("-", 40)>>, << >>)))

\* lines 567 and 570: the row of one module
SummaryRow(name, state_name, details) ==
    LJust(name, 15) \o " | " \o LJust(state_name, 60) \o " | " \o details

\* the loop left at the first module whose read fails
RECURSIVE SummaryRows_StopAtError(_, _, _)
SummaryRows_StopAtError(jlink, lookup, i) ==
    IF i > Len(lookup) THEN Printed(<< >>, << >>)
    ELSE LET name == lookup[i].name
             info == lookup[i].info
             rest == SummaryRows_StopAtError(jlink, lookup, i + 1)
         IN  IF info.state_var_addr = None \/ info.states_array_addr = None
             THEN rest
             ELSE LET r == memory_read32(jlink, info.state_var_addr, 1)
                      call == <<Read32Call(info.state_var_addr, 1)>>
                  IN  IF r.exc # ""
                      THEN Printed(<<SummaryRow(name, "???", "Error reading")>>,
                                   call)
                      ELSE Then(Printed(<<SummaryRow(name,
                                              read_smf_state_name(info, r.data[1]),
                                              "Ptr: 0x" \o Hex08(r.data[1]))>>,
                                        call),
                                rest)

\* lines 556-570: the rows of the modules from the i-th on
RECURSIVE SummaryRows(_, _, _)
SummaryRows(jlink, lookup, i) ==
    IF i > Len(lookup) THEN Printed(<< >>, << >>)
    ELSE LET name == lookup[i].name
             info == lookup[i].info
             rest == SummaryRows(jlink, lookup, i + 1)
         IN  IF info.state_var_addr = None \/ info.states_array_addr = None
             THEN rest
             ELSE LET r == memory_read32(jlink, info.state_var_addr, 1)
                      current_state_ptr == r.data[1]
                      row == IF r.exc = ""
                             THEN SummaryRow(name,
                                      read_smf_state_name(info, current_state_ptr),
                                      "Ptr: 0x" \o Hex08(current_state_ptr))
                             ELSE SummaryRow(name, "???", "Error reading")
                  IN  Then(Printed(<<row>>,
                                   <<Read32Call(info.state_var_addr, 1)>>),
                           rest)

\* lines 551-570
print_summary(jlink, lookup) ==
    Then(Printed(<<"", SummaryRow("Module", "Current State", "Details"),
                   Repeat("-", 100)>>, << >>),
         SummaryRows(jlink, lookup, 1))

(***************************************************************************)
(* A session of the inspector over the state of two modules in 20 bytes of *)
(* RAM: struct main_state at the RAM's first byte, struct cloud_state      *)
(* behind it.                                                               *)
(***************************************************************************)
\* the types of the state variables, as the TypeParser builds them
InspectTypes ==
    << PrimitiveType("int", 4),
       PrimitiveType("char", 1),
       PrimitiveType("bool", 1),
       [StructType("smf_ctx", 4) EXCEPT
            !.members = <<StructMember("current", 0, 5)>>],
       [PointerType("ptr", 4) EXCEPT !.target_type = 8],
       [ArrayType("array", 2) EXCEPT !.element_type = 2, !.count = 2],
       [StructType("inner", 2) EXCEPT
            !.members = <<StructMember("flag", 0, 3),
                          StructMember("tag", 1, 2)>>],
       [StructType("main_state", 16) EXCEPT
            !.members = <<StructMember("ctx", 0, 4),
                          StructMember("interval", 4, 1),
                          StructMember("nested", 8, 7),
                          StructMember("name", 10, 6),
                          StructMember("next", 12, 5)>>],
       [StructType("cloud_state", 4) EXCEPT
            !.members = <<StructMember("ctx", 0, 4)>>] >>

\* the bytes of a 32-bit word in the target's memory
ToBytes(w) ==
    << w % 256, (w \div 256) % 256, (w \div 65536) % 256, w \div 16777216 >>

MainStates == MemBase + 256      \* address of main.c's `states`
CloudStates == MemBase + 512     \* address of cloud.c's `states`

\* main_state.ctx.current: no state, states 0, 1 and 3 of main.c, an address
\* 16 bytes into the array, an address below the array
MainWords ==
    {0, MainStates, MainStates + 20, MainStates + 60, MainStates + 16,
     MainStates - 16}

CloudWords == {CloudStates, CloudStates + 20}

\* main_state.interval, .nested.flag, .nested.tag, .name, .next
MainFields ==
    { <<7, 0, 0, 0>> \o <<1>> \o <<65>> \o <<66, 0>> \o <<0, 0, 0, 0>>,
      <<0, 0, 0, 0>> \o <<0>> \o <<0>> \o <<65, 66>> \o ToBytes(MemBase) }

InspectRams ==
    { ToBytes(m) \o f \o ToBytes(c) :
          m \in MainWords, f \in MainFields, c \in CloudWords }

\* the addresses the debug port refuses: none, main_state.interval,
\* main_state.ctx, main_state.nested.tag
Unreadables ==
    { {}, (MemBase + 4)..(MemBase + 7), MemBase..(MemBase + 3), {MemBase + 9} }

InspectProbes ==
    { Probe(TRUE, "Unspecified error.", ram, bad) :
          ram \in InspectRams, bad \in Unreadables }
        \cup { Probe(FALSE, "The J-Link DLL is not open.", ram, {}) :
                   ram \in { r \in InspectRams : r[5] = 7 /\ r[17] = 0 } }

\* what analyze_elf found for a module: Main (its states array found or
\* not), Cloud, Network (its variable outside the RAM, its type not
\* resolved), Power (no states array, no struct)
Found(arrayKnown) ==
    << [name |-> "Main",
        info |-> SymbolInfo(MemBase, IF arrayKnown THEN MainStates ELSE None, 8,
                            0 :> "STATE_INIT" @@ 1 :> "STATE_RUNNING")],
       [name |-> "Cloud",
        info |-> SymbolInfo(MemBase + 16, CloudStates, 9,
                            0 :> "STATE_DISCONNECTED" @@ 1 :> "STATE_CONNECTED")],
       [name |-> "Network",
        info |-> SymbolInfo(MemBase + 20, MemBase + 768, NoNode, << >>)],
       [name |-> "Power",
        info |-> SymbolInfo(MemBase + 12, None, 1, << >>)] >>

\* the entries of a sequence at the positions of keep, in their order
RECURSIVE Select(_, _, _)
Select(seq, keep, i) ==
    IF i > Len(seq) THEN << >>
    ELSE (IF i \in keep THEN <<seq[i]>> ELSE << >>) \o Select(seq, keep, i + 1)

\* lookup is a dict in the order of MODULES
Lookups ==
    { Select(Found(k), keep, 1) : k \in BOOLEAN, keep \in SUBSET (1..4) }

\* lines 578-582: the probe is open and connected, the loop is entered
InitInspect ==
    /\ \E jlink \in InspectProbes, lookup \in Lookups :
          ui = [phase |-> "summary", jlink |-> jlink, lookup |-> lookup,
                op |-> "", arg |-> 0, out |-> << >>, calls |-> << >>]
    /\ heap = InspectTypes
    /\ dies = NoUnit
    /\ cache = << >>
    /\ stack = << >>
    /\ retval = NoNode
    /\ raised = ""
    /\ calls = << >>
    /\ smf = Idle
    /\ rv = Idle
    /\ elf = Idle
    /\ fota = Idle
    /\ vm = Idle

\* the operation op, on the arg-th entry of the lookup if on one, printed
\* p: its lines are on the terminal, its calls have acted on the target
Shown(op, arg, p, phase) ==
    ui' = [ui EXCEPT !.phase = phase, !.op = op, !.arg = arg,
                     !.out = p.lines, !.calls = p.calls,
                     !.jlink.ram = Effects(ui.jlink.ram, p.calls)]

\* line 585
PrintSummary ==
    /\ ui.phase = "summary"
    /\ Shown("print_summary", 0, print_summary(ui.jlink, ui.lookup), "menu")
    /\ UNCHANGED <<parseVars, fota, vm, smf, rv, elf>>

\* lines 599-600 and 618-619: 'q'
Quit ==
    /\ ui.phase = "menu"
    /\ ui' = [ui EXCEPT !.phase = "closed", !.calls = << >>]
    /\ UNCHANGED <<parseVars, fota, vm, smf, rv, elf>>

\* lines 601-602 and 612-613: 'r', or a choice that is no number
Refresh ==
    /\ ui.phase = "menu"
    /\ ui' = [ui EXCEPT !.phase = "summary", !.calls = << >>]
    /\ UNCHANGED <<parseVars, fota, vm, smf, rv, elf>>

\* lines 605-609: the number of a module
Inspect(idx) ==
    /\ ui.phase = "menu"
    /\ 0 <= idx /\ idx < Len(ui.lookup)
    /\ Shown("inspect_module_detail", idx + 1,
             inspect_module_detail(ui.jlink, ui.lookup[idx + 1].info,
                                   ui.lookup[idx + 1].name), "summary")
    /\ UNCHANGED <<parseVars, fota, vm, smf, rv, elf>>

\* lines 610-611: a number that is no module's
InvalidSelection ==
    /\ ui.phase = "menu"
    /\ Shown("", 0, Printed(<<"Invalid selection.">>, << >>), "summary")
    /\ UNCHANGED <<parseVars, fota, vm, smf, rv, elf>>

NextInspect ==
    \/ PrintSummary
    \/ Quit
    \/ Refresh
    \/ \E idx \in 0..3 : Inspect(idx)
    \/ InvalidSelection

SpecInspect == InitInspect /\ [][NextInspect]_vars

(***************************************************************************)
(* C14: a failed read in a structure dump                                  *)
(***************************************************************************)
\* the bytes read_value reads for a value of type ty
ReadSize(ty) ==
    CASE ty.kind = "PrimitiveType" -> ty.size
      [] ty.kind = "EnumType" -> IF ty.size = 0 THEN 4 ELSE ty.size
      [] ty.kind = "PointerType" -> 4
      [] /\ ty.kind = "ArrayType"
         /\ ty.count <= 16
         /\ ty.element_type # NoNode
         /\ heap[ty.element_type].kind = "PrimitiveType"
         /\ heap[ty.element_type].size = 1 -> ty.count
      [] OTHER -> 0

\* the probe delivers the n bytes at addr
Readable(jlink, addr, n) ==
    /\ jlink.connected
    /\ addr >= MemBase
    /\ addr + n <= MemBase + Len(jlink.ram)
    /\ \A a \in addr..(addr + n - 1) : a \notin jlink.unreadable

\* the 32-bit word of the target's RAM at addr
Word(jlink, addr) ==
    LET o == addr - MemBase
    IN  jlink.ram[o + 1] + 256 * jlink.ram[o + 2] + 65536 * jlink.ram[o + 3]
            + 16777216 * jlink.ram[o + 4]

\* the module whose details were printed last
Inspected == ui.lookup[ui.arg].info

\* inspect_module_detail has printed the dump of a module's structure
DumpShown ==
    /\ ui.op = "inspect_module_detail"
    /\ Inspected.state_var_addr \notin {None, 0}
    /\ Inspected.state_var_type # NoNode
    /\ heap[Inspected.state_var_type].kind = "StructType"

Expanded(ty) == ty.kind = "StructType" /\ ty.name # "smf_ctx"

\* the structures of the dump: [address, type, indent] of the module's state
\* and of the structs it embeds by value
Dumped ==
    LET top == heap[Inspected.state_var_type]
    IN  {[address |-> Inspected.state_var_addr, type |-> top, indent |-> 0]}
          \cup { [address |-> Inspected.state_var_addr + top.members[i].offset,
                  type |-> heap[top.members[i].type_info], indent |-> 4] :
                    i \in { j \in DOMAIN top.members :
                              Expanded(heap[top.members[j].type_info]) } }

\* what the lines of member m of the dumped structure d show after " : "
MemberValues(d, m) ==
    LET head == Repeat(" ", d.indent)
                    \o LJust(m.name, MaxNameLen(d.type.members)) \o " : "
    IN  { SubSeq(l, Len(head) + 1, Len(l)) :
            l \in { x \in Range(ui.out) :
                      Len(x) >= Len(head) /\ SubSeq(x, 1, Len(head)) = head } }

IsSmfCtx(m) == heap[m.type_info].name = "smf_ctx"

\* the bytes the dump reads for member m
MemberReadSize(m) == IF IsSmfCtx(m) THEN 4 ELSE ReadSize(heap[m.type_info])

MemberReadFails(d, m) ==
    /\ MemberReadSize(m) > 0
    /\ ~Readable(ui.jlink, d.address + m.offset, MemberReadSize(m))

MemberReadSucceeds(d, m) ==
    /\ MemberReadSize(m) > 0
    /\ Readable(ui.jlink, d.address + m.offset, MemberReadSize(m))

\* the value of member m rendered from the bytes at its own address
Rendered(d, m) ==
    IF IsSmfCtx(m)
    THEN read_smf_state_name(Inspected, Word(ui.jlink, d.address + m.offset))
    ELSE read_value(ui.jlink, d.address + m.offset, heap[m.type_info]).value

\* the members that read memory successfully have one line each, with the
\* value of their own bytes
SiblingsRendered ==
    \A d \in Dumped : \A i \in DOMAIN d.type.members :
        LET m == d.type.members[i]
        IN  MemberReadSucceeds(d, m) =>
                /\ MemberValues(d, m) = {Rendered(d, m)}
                /\ ~IsErrorMarker(Rendered(d, m))
                /\ m.name = "interval" /\ ui.jlink.ram[5] = 7 =>
                       Rendered(d, m) = "7 (0x7)"
                /\ m.name = "name" /\ ui.jlink.ram[11] = 66 =>
                       Rendered(d, m) = "\"B\""

SummaryShown == ui.op = "print_summary"

\* the entries of the lookup that print_summary does not skip
InSummary(i) ==
    /\ ui.lookup[i].info.state_var_addr # None
    /\ ui.lookup[i].info.states_array_addr # None

\* the line of the summary that holds the row of the i-th entry
RowOf(i) ==
    ui.out[3 + Cardinality({ j \in 1..i : InSummary(j) })]

\* C15: the summary row of a module whose first word at state_var_addr was
\* read shows the result of read_smf_state_name for that word against the
\* module's own states_array_addr and enum_map; with the states array at
\* 0x20000100 and the word 0x20000114 it shows the enum-map name of index 1.
C15_SummaryRowShowsMappedState ==
    SummaryShown =>
        \A i \in DOMAIN ui.lookup :
            LET name == ui.lookup[i].name
                info == ui.lookup[i].info
                ptr == Word(ui.jlink, info.state_var_addr)
            IN  InSummary(i) /\ Readable(ui.jlink, info.state_var_addr, 4) =>
                    /\ RowOf(i) = LJust(name, 15) \o " | "
                            \o LJust(read_smf_state_name(info, ptr), 60)
                            \o " | Ptr: 0x" \o Hex08(ptr)
                    /\ info.states_array_addr = 536871168 /\ ptr = 536871188 =>
                           /\ 1 \in DOMAIN info.enum_map
                           /\ RowOf(i) = LJust(name, 15) \o " | "
                                  \o LJust(info.enum_map[1], 60)
                                  \o " | Ptr: 0x20000114"
                           /\ RowOf(i) = "Main            | STATE_RUNNING                                                | Ptr: 0x20000114"
                    /\ info.states_array_addr = 536871424 /\ ptr = 536871444 =>
                           RowOf(i) = "Cloud           | STATE_CONNECTED                                              | Ptr: 0x20000214"

\* the summary of Main and Cloud was printed with Main's word 0x20000114
\* and Cloud's word 0x20000214
C15_Witness ==
    /\ SummaryShown
    /\ Len(ui.lookup) >= 2
    /\ ui.lookup[1].name = "Main" /\ InSummary(1)
    /\ ui.lookup[2].name = "Cloud"
    /\ ui.out[4] = "Main            | STATE_RUNNING                                                | Ptr: 0x20000114"
    /\ ui.out[5] = "Cloud           | STATE_CONNECTED                                              | Ptr: 0x20000214"

(***************************************************************************)
(* C19: the inspector only reads                                           *)
(***************************************************************************)
ReadOps == {"memory_read", "memory_read32"}

\* C19: no step of a session (a summary, a module inspection with its
\* print_struct, read_value and read_smf_state_name calls, a refresh, the
\* exit) changes the target's memory, and every call made on the probe is a
\* memory read.
C19_TargetMemoryOnlyRead ==
    [][/\ ui'.jlink.ram = ui.jlink.ram
       /\ \A i \in DOMAIN ui'.calls : ui'.calls[i].op \in ReadOps]_vars

\* a summary of two modules, and a dump of main_state, each with its reads
C19_Witness ==
    \/ /\ ui.op = "inspect_module_detail"
       /\ Len(ui.calls) = 6
       /\ \A i \in DOMAIN ui.calls : ui.calls[i].op = "memory_read"
       /\ ui.jlink.ram[1] = 20
    \/ /\ ui.op = "print_summary"
       /\ Len(ui.calls) = 2
       /\ \A i \in DOMAIN ui.calls : ui.calls[i].op = "memory_read32"
       /\ ui.jlink.ram[1] = 20

(***************************************************************************)
(* The analysis of a binary: analyze_elf, get_symbol_info and              *)
(* _extract_address_from_location.  A compilation unit is [path, dies]; a  *)
(* record of it is [tag, name, loc, type, children]: loc the bytes of the  *)
(* DW_AT_location expression, type the offset DW_AT_type refers to.        *)
(***************************************************************************)
ModuleConfig(name, file_name, function_name, variable_name, states_array_name, enum_type_name) ==
    [name |-> name, file_name |-> file_name, function_name |-> function_name,
     variable_name |-> variable_name, states_array_name |-> states_array_name,
     enum_type_name |-> enum_type_name]

MODULES ==
    << ModuleConfig("Main", "main.c", "main", "main_state", "states", "state"),
       ModuleConfig("Cloud", "cloud.c", "cloud_module_thread", "cloud_state",
                    "states", "cloud_module_state"),
       ModuleConfig("Location", "location.c", "location_module_thread",
                    "location_state", "states", "location_module_state"),
       ModuleConfig("Network", "network.c", "network_module_thread",
                    "network_state", "states", "network_module_state"),
       ModuleConfig("FOTA", "fota.c", "fota_module_thread", "fota_state",
                    "states", "fota_module_state"),
       ModuleConfig("Env", "environmental.c", "env_module_thread",
                    "environmental_state", "states", "environmental_module_state"),
       ModuleConfig("Power", "power.c", "power_module_thread", "power_state",
                    "states", "power_module_state"),
       ModuleConfig("Storage", "storage.c", "storage_thread", "storage_state",
                    "states", "storage_module_state") >>

DW_OP_ADDR == 3

\* a record without a DW_AT_location attribute
NoLoc == <<None>>

\* lines 182-188
_extract_address_from_location(loc) ==
    IF loc # NoLoc /\ Len(loc) > 0 /\ loc[1] = DW_OP_ADDR
    THEN FromBytes(Tail(loc))
    ELSE None

ElfDie(tag, name, loc, type, children) ==
    [tag |-> tag, name |-> name, loc |-> loc, type |-> type,
     children |-> children]

Subprogram(name, children) ==
    ElfDie("DW_TAG_subprogram", name, NoLoc, None, children)

Variable(name, loc, type) == ElfDie("DW_TAG_variable", name, loc, type, << >>)

Enumeration(name, enumerators) ==
    ElfDie("DW_TAG_enumeration_type", name, NoLoc, None, enumerators)

\* compilation_unit.iter_DIEs(): the records of the unit, a function before
\* the variables in it (the enumerators of an enumeration match no test of
\* the scan and are left out)
RECURSIVE iter_DIEs(_)
iter_DIEs(ds) ==
    IF ds = << >> THEN << >>
    ELSE <<Head(ds)>>
            \o (IF Head(ds).tag = "DW_TAG_subprogram" THEN Head(ds).children
                ELSE << >>)
            \o iter_DIEs(Tail(ds))

\* die_path.endswith(file_name)
EndsWith(path, file_name) ==
    /\ Len(path) >= Len(file_name)
    /\ SubSeq(path, Len(path) - Len(file_name) + 1, Len(path)) = file_name

(***************************************************************************)
(* The type records of the binary, by offset, as [tag, name, refs]: refs   *)
(* the offsets its DW_AT_type and its members' DW_AT_type refer to.        *)
(* Offset 9 holds no record.                                               *)
(***************************************************************************)
TypeRecord(tag, name, refs) == [tag |-> tag, name |-> name, refs |-> refs]

TypeRecords ==
    << TypeRecord("DW_TAG_structure_type", "main_state", {2, 5}),
       TypeRecord("DW_TAG_pointer_type", NoName, {1}),
       TypeRecord("DW_TAG_typedef", "cloud_state_t", {4}),
       TypeRecord("DW_TAG_structure_type", "cloud_state", {5}),
       TypeRecord("DW_TAG_base_type", "int", {}),
       TypeRecord("DW_TAG_structure_type", "broken_state", {5, 9}) >>

\* the offsets parse_type visits from the offsets of S
RECURSIVE Visited(_)
Visited(S) ==
    LET more == S \cup UNION { TypeRecords[o].refs : o \in S \cap DOMAIN TypeRecords }
    IN  IF more = S THEN S ELSE Visited(more)

\* the record a node is built from: the one under the typedefs
RECURSIVE Underlying(_)
Underlying(off) ==
    IF TypeRecords[off].tag = "DW_TAG_typedef"
    THEN Underlying(CHOOSE o \in TypeRecords[off].refs : TRUE)
    ELSE off

\* type_parser.parse_type(type_parser._get_die_from_attribute(type_attr,
\* die.cu)) on a new or warm cache: the node, named by the offset of its
\* record, or the ValueError of _get_die_at_offset for a record that is
\* not there
ParseType(off) ==
    IF \E o \in Visited({off}) : o \notin DOMAIN TypeRecords
    THEN [exc |-> "ValueError", node |-> NoNode]
    ELSE [exc |-> "", node |-> Underlying(off)]

\* the scan of get_symbol_info: its result so far, and the exception that
\* left it
Scan(result, exc) == [result |-> result, exc |-> exc]

\* lines 336-347: the children of the function, from the i-th on
RECURSIVE ScanChildren(_, _, _, _)
ScanChildren(st, config, children, i) ==
    IF i > Len(children) \/ st.exc # "" THEN st
    ELSE LET child == children[i]
             addr == _extract_address_from_location(child.loc)
             parsed == ParseType(child.type)
             next ==
               IF /\ child.tag = "DW_TAG_variable"
                  /\ child.name = config.variable_name
                  /\ addr # None
               THEN IF child.type = None
                    THEN Scan([st.result EXCEPT !.state_var_addr = addr], "")
                    ELSE IF parsed.exc # ""
                         THEN Scan([st.result EXCEPT !.state_var_addr = addr],
                                   parsed.exc)
                    ELSE Scan([st.result EXCEPT !.state_var_addr = addr,
                                                !.state_var_type = parsed.node],
                              "")
               ELSE st
         IN  ScanChildren(next, config, children, i + 1)

\* lines 332-361: one record of the unit
ScanDie(st, config, die) ==
    LET s1 == IF /\ die.tag = "DW_TAG_subprogram"
                 /\ die.name = config.function_name
              THEN ScanChildren(st, config, die.children, 1)
              ELSE st
        addr == _extract_address_from_location(die.loc)
        s2 == IF /\ s1.exc = ""
                 /\ die.tag = "DW_TAG_variable"
                 /\ die.name = config.states_array_name
                 /\ addr # None
              THEN Scan([s1.result EXCEPT !.states_array_addr = addr], "")
              ELSE s1
    IN  IF /\ s2.exc = ""
           /\ config.enum_type_name # NoName
           /\ die.tag = "DW_TAG_enumeration_type"
           /\ die.name = config.enum_type_name
        THEN Scan([s2.result EXCEPT
                      !.enum_map = ScanEnumerators(die.children, << >>)], "")
        ELSE s2

\* line 330: the records of the unit, from the i-th on
RECURSIVE ScanDies(_, _, _, _)
ScanDies(st, config, ds, i) ==
    IF i > Len(ds) \/ st.exc # "" THEN st
    ELSE ScanDies(ScanDie(st, config, ds[i]), config, ds, i + 1)

\* the scan goes on to the units behind, whatever it has found
StopScanning_Never(result) == FALSE

\* line 363
StopScanning(result) == result.state_var_addr # None

\* lines 323-364: the units, from the u-th on
RECURSIVE ScanUnits(_, _, _, _)
ScanUnits(st, config, units, u) ==
    IF u > Len(units) \/ st.exc # "" THEN st
    ELSE IF ~EndsWith(units[u].path, config.file_name)
         THEN ScanUnits(st, config, units, u + 1)
    ELSE LET scanned == ScanDies(st, config, iter_DIEs(units[u].dies), 1)
         IN  IF scanned.exc = "" /\ StopScanning(scanned.result) THEN scanned
             ELSE ScanUnits(scanned, config, units, u + 1)

\* lines 318-366: the SymbolInfo returned, or the exception raised
get_symbol_info(units, config) ==
    ScanUnits(Scan(SymbolInfo(None, None, NoNode, << >>), ""), config, units, 1)

(***************************************************************************)
(* The binaries analysed: a unit of main.c, a unit of cloud.c and a unit   *)
(* of another file whose path ends with "main.c", in either order.  The    *)
(* addresses of the binary are two bytes wide, so that the integer of a    *)
(* location expression with an operation behind the address stays below    *)
(* 2^31.                                                                   *)
(***************************************************************************)
ElfRamBase == 8192      \* address of the first variable of the binary

\* DW_OP_addr <a>
Addr(a) == <<DW_OP_ADDR, a % 256, a \div 256>>

\* location expressions: the address of main_state; DW_OP_fbreg (0x91) -4;
\* no operation; no attribute; DW_OP_addr without its operand; DW_OP_addr
\* <address>, DW_OP_deref (0x06)
Locations ==
    { Addr(ElfRamBase), <<145, 124>>, << >>, NoLoc, <<DW_OP_ADDR>>,
      Addr(ElfRamBase) \o <<6>> }

Unit(path, ds) == [path |-> path, dies |-> ds]

MainUnit(loc, type) ==
    Unit("/app/src/main.c",
         << Enumeration("state", << Enumerator("STATE_INIT", 0),
                                    Enumerator("STATE_RUNNING", 1) >>),
            Variable("states", Addr(ElfRamBase + 256), None),
            Subprogram("main", << Variable("ret", <<145, 120>>, 5),
                                  Variable("main_state", loc, type) >>) >>)

MainUnits ==
    { MainUnit(loc, 1) : loc \in Locations }
        \cup { MainUnit(Addr(ElfRamBase), type) : type \in {None, 6, 9} }
        \cup { Unit("/app/src/main.c",
                    << Variable("states", Addr(ElfRamBase + 256), None),
                       Subprogram("main", << >>) >>),
               Unit("/app/src/main.c",
                    << Subprogram("main", << Variable("main_state",
                                                      Addr(ElfRamBase), 1) >>) >>),
               Unit("/app/src/main.c", << Subprogram("sys_init", << >>) >>) }

\* a unit of another file whose path ends with "main.c": without anything
\* of the Main module, or with a `states` array and a `state` enumeration
OtherUnits ==
    { Unit("/zephyr/kernel/mem_domain.c",
           << Variable("domain_lock", Addr(ElfRamBase + 64), 5) >>),
      Unit("/app/tests/main.c",
           << Enumeration("state", << Enumerator("TEST_IDLE", 0) >>),
              Variable("states", Addr(ElfRamBase + 768), None),
              Subprogram("main", << Variable("main_state", <<145, 124>>, 1) >>) >>) }

CloudUnit(ds) == Unit("/app/src/modules/cloud/cloud.c", ds)

CloudUnits ==
    { CloudUnit(<< Enumeration("cloud_module_state",
                               << Enumerator("STATE_DISCONNECTED", 0),
                                  Enumerator("STATE_CONNECTED", 1) >>),
                   Variable("states", Addr(ElfRamBase + 512), None),
                   Subprogram("cloud_module_thread",
                              << Variable("cloud_state", Addr(ElfRamBase + 16),
                                          type) >>) >>) : type \in {3, 6} }
        \cup { CloudUnit(<< Variable("states", Addr(ElfRamBase + 512), None) >>) }

\* dwarfinfo.iter_CUs()
Binaries ==
    { <<m>> \o c : m \in MainUnits, c \in {<< >>} \cup { <<x>> : x \in CloudUnits } }
      \cup { <<o, m>> \o c : o \in OtherUnits, m \in MainUnits,
                             c \in {<< >>} \cup { <<x>> : x \in CloudUnits } }
      \cup { <<m, o>> \o c : o \in OtherUnits, m \in MainUnits,
                             c \in {<< >>} \cup { <<x>> : x \in CloudUnits } }

\* lines 371-381: the file is open, lookup is empty, the loop over MODULES
\* begins
InitElf ==
    /\ \E units \in Binaries :
          elf = [phase |-> "modules", units |-> units, i |-> 1,
                 lookup |-> << >>, raised |-> "", returned |-> << >>]
    /\ dies = NoUnit
    /\ ParserIdle
    /\ smf = Idle
    /\ rv = Idle
    /\ ui = Idle
    /\ fota = Idle
    /\ vm = Idle

\* every module is entered, found or not
Registered_Always(info) == TRUE

\* lines 387-391
Registered(info) == info.state_var_addr # None

\* get_symbol_info for the module the loop of line 383 is at
Looked == get_symbol_info(elf.units, MODULES[elf.i])

AtModule == elf.phase = "modules" /\ elf.i <= Len(MODULES)

\* lines 385-391: the module is entered into lookup
ModuleFound ==
    /\ AtModule
    /\ Looked.exc = ""
    /\ Registered(Looked.result)
    /\ elf' = [elf EXCEPT !.i = @ + 1,
                          !.lookup = Append(@, [name |-> MODULES[elf.i].name,
                                                info |-> Looked.result])]
    /\ UNCHANGED <<parseVars, fota, vm, smf, rv, ui>>

\* lines 385-389: the module is passed over
ModuleNotFound ==
    /\ AtModule
    /\ Looked.exc = ""
    /\ ~Registered(Looked.result)
    /\ elf' = [elf EXCEPT !.i = @ + 1]
    /\ UNCHANGED <<parseVars, fota, vm, smf, rv, ui>>

\* lines 393-396: an exception left get_symbol_info
AnalysisFails ==
    /\ AtModule
    /\ Looked.exc # ""
    /\ elf' = [elf EXCEPT !.phase = "returned", !.raised = Looked.exc,
                          !.returned = << >>]
    /\ UNCHANGED <<parseVars, fota, vm, smf, rv, ui>>

\* line 398
AnalysisReturns ==
    /\ elf.phase = "modules"
    /\ elf.i > Len(MODULES)
    /\ elf' = [elf EXCEPT !.phase = "returned", !.returned = elf.lookup]
    /\ UNCHANGED <<parseVars, fota, vm, smf, rv, ui>>

NextElf ==
    \/ ModuleFound
    \/ ModuleNotFound
    \/ AnalysisFails
    \/ AnalysisReturns

SpecElf == InitElf /\ [][NextElf]_vars

(***************************************************************************)
(* C16: a type that cannot be resolved                                     *)
(***************************************************************************)
Analysed == elf.phase = "returned"

Entry(name, info) == [name |-> name, info |-> info]

\* the modules whose state variable get_symbol_info locates, its type
\* resolved or absent
Locatable(k) ==
    LET o == get_symbol_info(elf.units, MODULES[k])
    IN  o.exc = "" /\ o.result.state_var_addr # None

\* C16: when the type of one module's state variable refers to a record
\* that is not in the debug info, analyze_elf still returns a lookup that
\* holds every other module whose state variable is locatable.
C16_OnlyTheFailedModuleIsSkipped ==
    Analysed =>
        \A k \in DOMAIN MODULES :
            Locatable(k) =>
                Entry(MODULES[k].name,
                      get_symbol_info(elf.units, MODULES[k]).result)
                    \in Range(elf.returned)

\* main.c is complete and the struct of cloud_state has a member whose
\* type record is missing: the analysis has returned
C16_FailingInput ==
    /\ Analysed
    /\ Locatable(1)
    /\ get_symbol_info(elf.units, MODULES[2]).exc = "ValueError"
    /\ elf.raised = "ValueError"
    /\ elf.returned = << >>

(***************************************************************************)
(* C17: the units get_symbol_info scans                                    *)
(***************************************************************************)
\* get_symbol_info has returned for the module before the one the loop is at
LookedUp == elf.phase = "modules" /\ elf.i > 1

Last == MODULES[elf.i - 1]

Matching(config) ==
    { u \in DOMAIN elf.units : EndsWith(elf.units[u].path, config.file_name) }

\* what the scan of the u-th unit alone gives
Alone(u, config) == get_symbol_info(<<elf.units[u]>>, config)

NoInfo == Scan(SymbolInfo(None, None, NoNode, << >>), "")

Min(S) == CHOOSE x \in S : \A y \in S : x <= y
Max(S) == CHOOSE x \in S : \A y \in S : x >= y

\* C17: get_symbol_info returns what the first unit whose path ends with
\* config.file_name gives, and nothing of the units behind it.
C17_FirstMatchingUnitOnly ==
    LookedUp =>
        get_symbol_info(elf.units, Last) =
            IF Matching(Last) = {} THEN NoInfo
            ELSE Alone(Min(Matching(Last)), Last)

\* the units of Matching(config) that end the scan: the state variable's
\* address is found in them
Ending(config) ==
    { u \in Matching(config) : Alone(u, config).result.state_var_addr # None }

\* the units get_symbol_info scans
Scanned(config) ==
    { u \in Matching(config) :
          Ending(config) # {} => u <= Min(Ending(config)) }

\* the value of a field: that of the last scanned unit that sets it
FieldOf(config, Get(_), empty) ==
    LET setting == { u \in Scanned(config) : Get(Alone(u, config).result) # empty }
    IN  IF setting = {} THEN empty
        ELSE Get(Alone(Max(setting), config).result)

GetStateVarAddr(info) == info.state_var_addr
GetStateVarType(info) == info.state_var_type
GetStatesArrayAddr(info) == info.states_array_addr
GetEnumMap(info) == info.enum_map

\* C17 (amended): get_symbol_info scans, in iteration order, every unit
\* whose path ends with config.file_name, up to and including the first one
\* in which it finds the state variable's address; each field of the result
\* is that of the last scanned unit that sets it; the units behind the one
\* with the state variable contribute nothing.
C17_ScansUntilStateVariableFound ==
    LookedUp =>
        LET whole == get_symbol_info(elf.units, Last)
            last == IF Ending(Last) = {} THEN Len(elf.units)
                    ELSE Min(Ending(Last))
        IN  /\ whole = get_symbol_info(SubSeq(elf.units, 1, last), Last)
            /\ whole.result.state_var_addr =
                   FieldOf(Last, GetStateVarAddr, None)
            /\ whole.result.state_var_type =
                   FieldOf(Last, GetStateVarType, NoNode)
            /\ whole.result.states_array_addr =
                   FieldOf(Last, GetStatesArrayAddr, None)
            /\ whole.result.enum_map = FieldOf(Last, GetEnumMap, << >>)

\* tests/main.c comes before a main.c that holds main_state alone: Main has
\* the address and type of main.c's main_state with the states array and
\* the enum map of tests/main.c
C17_Witness ==
    /\ LookedUp
    /\ elf.i = 2
    /\ Len(elf.units) >= 2
    /\ elf.units[1].path = "/app/tests/main.c"
    /\ elf.units[2].path = "/app/src/main.c"
    /\ elf.lookup = <<Entry("Main",
                            SymbolInfo(ElfRamBase, ElfRamBase + 768, 1,
                                       0 :> "TEST_IDLE"))>>

(***************************************************************************)
(* C18: the address of a location expression                               *)
(***************************************************************************)
\* the variables of the binary that carry a location attribute or none
Variables ==
    UNION { { ds[i] : i \in { j \in DOMAIN ds : ds[j].tag = "DW_TAG_variable" } } :
              ds \in { iter_DIEs(elf.units[u].dies) : u \in DOMAIN elf.units } }

\* the expression is DW_OP_addr with its two-byte address, and nothing else
IsPushAddress(loc) == loc # NoLoc /\ Len(loc) = 3 /\ loc[1] = DW_OP_ADDR

\* C18: _extract_address_from_location yields the address of an expression
\* that is the single operation DW_OP_addr <address>, and None for an absent
\* or empty location, for any other first opcode, and for an expression with
\* further operations behind the address.
C18_AddressOnlyFromSinglePush ==
    \A v \in Variables :
        _extract_address_from_location(v.loc) =
            IF IsPushAddress(v.loc) THEN v.loc[2] + 256 * v.loc[3] ELSE None

\* main_state is located by DW_OP_addr <address>, DW_OP_deref, and Main is
\* in the lookup with an address
C18_FailingInput ==
    /\ LookedUp
    /\ elf.i = 2
    /\ \E v \in Variables :
          v.name = "main_state" /\ v.loc = Addr(ElfRamBase) \o <<6>>
    /\ Len(elf.lookup) = 1
    /\ elf.lookup[1].info.state_var_addr = ElfRamBase + 65536 * 6

(***************************************************************************)
(* C20: symbols that are not in the debug info                             *)
(***************************************************************************)
\* the records of the units whose path ends with config.file_name
Records(config) ==
    UNION { Range(iter_DIEs(elf.units[u].dies)) : u \in Matching(config) }

HasFunction(config) ==
    \E d \in Records(config) :
        d.tag = "DW_TAG_subprogram" /\ d.name = config.function_name

HasStateVariable(config) ==
    \E d \in Records(config) :
        /\ d.tag = "DW_TAG_subprogram" /\ d.name = config.function_name
        /\ \E c \in Range(d.children) :
               c.tag = "DW_TAG_variable" /\ c.name = config.variable_name

HasStatesArray(config) ==
    \E d \in Records(config) :
        d.tag = "DW_TAG_variable" /\ d.name = config.states_array_name

HasEnum(config) ==
    \E d \in Records(config) :
        d.tag = "DW_TAG_enumeration_type" /\ d.name = config.enum_type_name

\* the modules the loop of analyze_elf has passed
Passed == 1..(IF elf.phase = "modules" THEN elf.i - 1 ELSE
              IF elf.raised = "" THEN Len(MODULES) ELSE elf.i - 1)

\* the entries of the modules of S whose state variable's address was found
RECURSIVE EntriesOf(_, _)
EntriesOf(k, to) ==
    IF k > to THEN << >>
    ELSE LET o == get_symbol_info(elf.units, MODULES[k])
         IN  (IF o.result.state_var_addr # None
              THEN <<Entry(MODULES[k].name, o.result)>> ELSE << >>)
                 \o EntriesOf(k + 1, to)

\* C20: get_symbol_info raises nothing and leaves the fields empty for the
\* file, function, variable, states array or enum type that is not in the
\* debug info; the lookup of analyze_elf holds an entry for a module exactly
\* when the module's state-variable address was found, the entry being what
\* get_symbol_info returned for that module whatever the other modules gave.
C20_AbsenceIsNoError ==
    /\ \A k \in DOMAIN MODULES :
          LET config == MODULES[k]
              o == get_symbol_info(elf.units, config)
          IN  /\ Matching(config) = {} => o = NoInfo
              /\ ~HasFunction(config) \/ ~HasStateVariable(config) =>
                     /\ o.exc = ""
                     /\ o.result.state_var_addr = None
                     /\ o.result.state_var_type = NoNode
              /\ o.exc = "" /\ ~HasStatesArray(config) =>
                     o.result.states_array_addr = None
              /\ o.exc = "" /\ ~HasEnum(config) => o.result.enum_map = << >>
    /\ elf.lookup = EntriesOf(1, Max(Passed \cup {0}))
    /\ Analysed /\ elf.raised = "" => elf.returned = elf.lookup

\* the binary holds main.c without the function main, and cloud.c: the
\* analysis has returned a lookup with Cloud alone
C20_Witness ==
    /\ Analysed
    /\ elf.raised = ""
    /\ Matching(MODULES[1]) # {}
    /\ ~HasFunction(MODULES[1])
    /\ Matching(MODULES[3]) = {}
    /\ Len(elf.returned) = 1
    /\ elf.returned[1].name = "Cloud"
    /\ elf.returned[1].info.state_var_type = 4

(***************************************************************************)
(* C21: the rows of the summary                                            *)
(***************************************************************************)
\* C21: print_summary prints, under its two header lines, one row for every
\* entry of the lookup whose state_var_addr and states_array_addr are both
\* known, in the order of the lookup, and none for the others; the row of a
\* module whose memory read fails is "<name> | ??? | Error reading", and the
\* rows of the modules behind it are printed as if it had not failed.
C21_OneRowPerModule ==
    SummaryShown =>
        /\ Len(ui.out) = 3 + Cardinality({ i \in DOMAIN ui.lookup : InSummary(i) })
        /\ \A i \in DOMAIN ui.lookup :
              InSummary(i) =>
                  LET name == ui.lookup[i].name
                      info == ui.lookup[i].info
                  IN  /\ SubSeq(RowOf(i), 1, 18) = LJust(name, 15) \o " | "
                      /\ Len(RowOf(i)) > 81
                      /\ ~Readable(ui.jlink, info.state_var_addr, 4) =>
                             RowOf(i) = LJust(name, 15) \o " | "
                                 \o LJust("???", 60) \o " | Error reading"
                      /\ Readable(ui.jlink, info.state_var_addr, 4) =>
                             SubSeq(RowOf(i), 79, 88) = " | Ptr: 0x"

\* the word of Main could not be read and the word of Cloud could: Main's
\* row holds the placeholder and Cloud's row, behind it, its state
C21_Witness ==
    /\ SummaryShown
    /\ Len(ui.lookup) = 4
    /\ Len(ui.out) = 6
    /\ ui.out[4] = "Main            | ???                                                          | Error reading"
    /\ ui.out[5] = "Cloud           | STATE_CONNECTED                                              | Ptr: 0x20000214"
    /\ SubSeq(ui.out[6], 1, 7) = "Network"

(***************************************************************************)
(* C22: registration before recursion                                      *)
(***************************************************************************)
\* the activations that are past the construction of their node
Constructing ==
    { k \in 1..Len(stack) :
        stack[k].pc \in {"members", "member_ret", "pointee", "pointee_ret",
                         "element", "element_ret", "subranges", "enumerators"} }

\* the activations that wait for a parse_type call they made
Resolving == { k \in 1..Len(stack) : k < Len(stack) }

\* C22: at every moment at which an activation of parse_type for a struct,
\* pointer, array or enum record has built its node, and so at every moment
\* at which a member type, pointee type, element type or enumerator of the
\* record is being resolved, the cache holds that node under the offset of
\* the record.
C22_RegisteredBeforeRecursion ==
    /\ \A k \in Constructing :
          /\ stack[k].die \in DOMAIN cache
          /\ cache[stack[k].die] = stack[k].node
    /\ \A k \in Resolving :
          dies[stack[k].die].tag \in CachedTags => k \in Constructing

\* the resolution of a member type has come back to the record of a struct
\* under construction, an array and a pointer lying between the two, and
\* finds the struct's node in the cache
C22_Witness ==
    /\ Len(stack) >= 4
    /\ AtEntry
    /\ Top.die = stack[1].die
    /\ stack[1].pc = "member_ret"
    /\ \E k \in Resolving : stack[k].pc = "pointee_ret"
    /\ \E k \in Resolving : stack[k].pc = "element_ret"
    /\ cache[Top.die] = stack[1].node

(***************************************************************************)
(* C23: const, volatile and typedef records                                *)
(***************************************************************************)
\* the returned top-level calls on a const, volatile or typedef record
WrapperCalls == { k \in Returned : IsWrapper(dies[calls[k].root]) }

\* the names of the const, volatile and typedef records of the unit
WrapperNames == { dies[o].name : o \in { x \in DOMAIN dies : IsWrapper(dies[x]) } }

\* C23: resolving a const, volatile or typedef record returns the node of
\* the record its chain of such records ends at: the cached node of a
\* struct, pointer, array or enum, or one new PrimitiveType carrying the
\* name and size of a base type; no node carries the name of a wrapper and
\* no wrapper offset enters the cache; a wrapper without a referenced type
\* resolves to one new PrimitiveType("void", 0).
C23_WrapperIsTransparent ==
    /\ \A off \in DOMAIN cache : ~IsWrapper(dies[off])
    /\ \A id \in 1..Len(heap) : heap[id].name \notin WrapperNames
    /\ \A k \in WrapperCalls :
          LET u == Unwrapped(calls[k].root)
              node == heap[calls[k].result]
          IN  IF IsWrapper(dies[u])
              THEN node = PrimitiveType("void", 0) /\ Constructed(k) = 1
              ELSE IF dies[u].tag \in CachedTags
              THEN calls[k].result = cache[u]
              ELSE /\ node = PrimitiveType(NameOrAnon(dies[u].name),
                                           ValueOrZero(dies[u].byte_size))
                   /\ Constructed(k) = 1

\* a wrapper of a wrapper of a struct has been resolved to the struct's
\* node, which is the only node built
C23_Witness ==
    \E k \in WrapperCalls :
        LET t == RefTarget(dies[calls[k].root].type)
        IN  /\ dies[calls[k].root].type # NoAttr
            /\ IsWrapper(dies[t])
            /\ dies[t].type # NoAttr
            /\ IsTag(Unwrapped(t), "DW_TAG_structure_type")
            /\ calls[k].result = cache[Unwrapped(t)]
            /\ heap[calls[k].result].name = "<anon>"
            /\ Cardinality(DOMAIN cache) = 1

(***************************************************************************)
(* C24: the members of a StructType                                        *)
(***************************************************************************)
\* the structs whose resolution has returned, as <<record offset, node>>
ResolvedStructs ==
    { <<off, cache[off]>> : off \in
        { o \in DOMAIN cache : /\ dies[o].tag = "DW_TAG_structure_type"
                               /\ raised = ""
                               /\ Finished(cache[o]) } }

\* the DW_TAG_member children of a record, in order
MemberChildren(d) == SelectSeq(d.children, LAMBDA c : c.tag = "DW_TAG_member")

\* node id is what the record at offset off resolves to
ResolvedAs(id, off) ==
    LET u == Unwrapped(off)
    IN  IF IsWrapper(dies[u]) THEN heap[id] = PrimitiveType("void", 0)
        ELSE IF dies[u].tag \in CachedTags
        THEN u \in DOMAIN cache /\ id = cache[u]
        ELSE heap[id] = PrimitiveType(NameOrAnon(dies[u].name),
                                      ValueOrZero(dies[u].byte_size))

\* the entries of node t are those of the member records ms, in order
EntriesMatch(t, ms) ==
    /\ Len(t.members) = Len(ms)
    /\ \A k \in 1..Len(ms) :
          Len(t.members) >= k =>
              /\ t.members[k].name = NameOrAnon(ms[k].name)
              /\ t.members[k].offset = ValueOrZero(ms[k].location)
              /\ ms[k].type # NoAttr =>
                     ResolvedAs(t.members[k].type_info, RefTarget(ms[k].type))

\* C24 as claimed: the resolved StructType has exactly one StructMember per
\* DW_TAG_member child, in the order of the children, holding the member's
\* name or "<anon>", its offset or 0 and its resolved type.
C24_OneEntryPerMember ==
    \A s \in ResolvedStructs : EntriesMatch(heap[s[2]], MemberChildren(dies[s[1]]))

\* C24 (amended): the resolved StructType has exactly one StructMember per
\* DW_TAG_member child that carries a DW_AT_type, in the order of those
\* children, holding the member's name or "<anon>", its offset or 0 and its
\* resolved type; a member child without DW_AT_type contributes no entry,
\* like a child that is no member.
C24_OneEntryPerTypedMember ==
    \A s \in ResolvedStructs : EntriesMatch(heap[s[2]], TypedMembers(dies[s[1]]))

\* a struct with a variable child, an unnamed member without location, a
\* member without type and a named member at offset 8 resolved to two
\* entries
C24_Witness ==
    \E s \in ResolvedStructs :
        /\ Len(dies[s[1]].children) = 4
        /\ Len(MemberChildren(dies[s[1]])) = 3
        /\ Len(heap[s[2]].members) = 2
        /\ heap[s[2]].members[1].name = "<anon>"
        /\ heap[s[2]].members[1].offset = 0
        /\ heap[s[2]].members[2].name = "val"
        /\ heap[s[2]].members[2].offset = 8
        /\ heap[s[2]].members[1].type_info # heap[s[2]].members[2].type_info

(***************************************************************************)
(* C27: nodes are not changed after their construction                     *)
(***************************************************************************)
\* the nodes whose constructing activation of parse_type is over
FinishedNodes == { id \in 1..Len(heap) : Finished(id) }

\* C27: once the parse_type call that constructed a node has returned, no
\* step of the same TypeParser (the resolution of another root, a second
\* resolution of the same root, a cache hit) changes a field of the node:
\* name, size, members, mapping, target_type, element_type and count stay.
C27_NodesFrozenAfterReturn ==
    [][\A id \in FinishedNodes : heap'[id] = heap[id]]_vars

\* a struct with members was resolved by the first call; the second call,
\* on another record, built further nodes, one of which refers to the
\* struct, and left the struct as the first call returned it
C27_Witness ==
    /\ Len(calls) = 2
    /\ Returned = {1, 2}
    /\ calls[1].root # calls[2].root
    /\ heap[calls[1].result].kind = "StructType"
    /\ Len(heap[calls[1].result].members) = 2
    /\ Constructed(2) >= 1
    /\ calls[2].result > calls[1].nodes
    /\ calls[1].result \in NodeRefs(calls[2].result)

(***************************************************************************)
(* C28: the cache is keyed by record offset                                *)
(***************************************************************************)
\* the nodes of the four kinds that parse_type registers
CachedKinds == {"StructType", "PointerType", "ArrayType", "EnumType"}
CachedNodes == { id \in 1..Len(heap) : heap[id].kind \in CachedKinds }

\* every reference node id holds leads to the node of the record referred to
RefsResolved(off, id) ==
    LET d == dies[off]
        t == heap[id]
    IN  /\ t.target_type # NoNode => ResolvedAs(t.target_type, RefTarget(d.type))
        /\ t.element_type # NoNode => ResolvedAs(t.element_type, RefTarget(d.type))
        /\ LET ms == TypedMembers(d)
           IN  \A k \in 1..Len(t.members) :
                  ResolvedAs(t.members[k].type_info, RefTarget(ms[k].type))

\* the cache holds one node per struct, pointer, array or enum record met,
\* under the offset of the record, and nothing else
OneNodePerOffset ==
    /\ \A off \in DOMAIN cache : dies[off].tag \in CachedTags
    /\ \A a, b \in DOMAIN cache : a # b => cache[a] # cache[b]
    /\ CachedNodes = { cache[off] : off \in DOMAIN cache }
    /\ \A off \in DOMAIN cache :
          /\ heap[cache[off]].name = NameOrAnon(dies[off].name)
          /\ RefsResolved(off, cache[off])

\* an entry of the cache is never replaced or removed
EntriesKept ==
    \A off \in DOMAIN cache : off \in DOMAIN cache' /\ cache'[off] = cache[off]

\* C28: within one TypeParser the cache is keyed by record offset: after
\* any sequence of parse_type calls every struct, pointer, array or enum
\* record met has exactly one node, which stays its node; every reference to
\* the record, from whichever node, holds that node; two records that share
\* a name have two distinct nodes.
C28_CacheKeyedByOffset == [](OneNodePerOffset) /\ [][EntriesKept]_vars

\* two structs of one name were resolved to two nodes; one refers to the
\* other, and a pointer node that one of them holds has the other as target
C28_Witness ==
    /\ ~Running
    /\ raised = ""
    /\ \E a, b \in DOMAIN cache :
          /\ a # b
          /\ dies[a].tag = "DW_TAG_structure_type"
          /\ dies[b].tag = "DW_TAG_structure_type"
          /\ dies[a].name = dies[b].name
          /\ cache[a] # cache[b]
          /\ \E p \in DOMAIN cache :
                /\ dies[p].tag = "DW_TAG_pointer_type"
                /\ heap[cache[p]].target_type = cache[a]
                /\ cache[p] \in NodeRefs(cache[b])
                /\ cache[a] \in NodeRefs(cache[b]) \/ cache[b] \in NodeRefs(cache[a])

(***************************************************************************)
(* C25: smf_ctx members and embedded structs in a dump                     *)
(***************************************************************************)
\* the number of lines print_struct prints for the members of ty from the
\* i-th on: one per member, and for an embedded struct that is expanded two
\* braces and its own members in addition
RECURSIVE DumpLength(_, _)
DumpLength(ty, i) ==
    IF i > Len(ty.members) THEN 0
    ELSE LET mt == heap[ty.members[i].type_info]
         IN  (IF Expanded(mt) THEN 3 + DumpLength(mt, 1) ELSE 1)
                 + DumpLength(ty, i + 1)

\* the structure the dump was asked for
TopDumped ==
    [address |-> Inspected.state_var_addr,
     type |-> heap[Inspected.state_var_type], indent |-> 0]

\* the line of member m of the dumped structure d holding the value v
LineOf(d, m, v) ==
    MemberLine(Repeat(" ", d.indent), m.name, MaxNameLen(d.type.members), v)

\* the output holds, one after the other, the placeholder line of the
\* struct member m of d, an opening brace, one line for each member of m's
\* type read at m's address and indented by 4 more, and a closing brace
ExpandedInPlace(d, m) ==
    LET mt == heap[m.type_info]
        inner == [address |-> d.address + m.offset, type |-> mt,
                  indent |-> d.indent + 4]
        n == Len(mt.members)
    IN  \E j \in 1..Len(ui.out) :
            /\ j + n + 2 <= Len(ui.out)
            /\ ui.out[j] = LineOf(d, m, mt.name \o " { ... }")
            /\ ui.out[j + 1] = Repeat(" ", d.indent) \o "  {"
            /\ \A k \in 1..n :
                  ui.out[j + 1 + k] =
                      LineOf(inner, mt.members[k],
                             read_value(ui.jlink,
                                        inner.address + mt.members[k].offset,
                                        heap[mt.members[k].type_info]).value)
            /\ ui.out[j + n + 2] = Repeat(" ", d.indent) \o "  }"

\* every struct-typed member of the dumped structure whose type is not
\* named smf_ctx is expanded, no member of an smf_ctx is printed, and the
\* dump has no line beyond those
OthersExpanded ==
    /\ \A i \in DOMAIN TopDumped.type.members :
          LET m == TopDumped.type.members[i]
          IN  Expanded(heap[m.type_info]) => ExpandedInPlace(TopDumped, m)
    /\ Len(ui.out) = 6 + DumpLength(TopDumped.type, 1)
    /\ \A j \in 1..Len(ui.out) : ~Contains(ui.out[j], "current")

\* C25 as claimed: a member whose type is named smf_ctx is printed as one
\* line holding the state name read_smf_state_name gives for the 4-byte
\* pointer at the member's address and is never expanded; every other
\* struct-typed member is printed as a placeholder line followed by the
\* dump of its members at the member's address, indented further.
C25_SmfCtxShowsStateName ==
    DumpShown =>
        /\ \A i \in DOMAIN TopDumped.type.members :
              LET m == TopDumped.type.members[i]
              IN  IsSmfCtx(m) =>
                      MemberValues(TopDumped, m) =
                          {read_smf_state_name(Inspected,
                               Word(ui.jlink, TopDumped.address + m.offset))}
        /\ OthersExpanded

\* C25 (amended): a member whose type is named smf_ctx is printed as one
\* line and never expanded; the line holds the state name
\* read_smf_state_name gives for the 4-byte pointer at the member's address
\* when that read succeeds, and what read_value gives for the member (the
\* placeholder "smf_ctx { ... }" for a struct) when it fails; every other
\* struct-typed member is printed as a placeholder line followed by the
\* dump of its members at the member's address, indented further.
C25_SmfCtxOneLine ==
    DumpShown =>
        /\ \A i \in DOMAIN TopDumped.type.members :
              LET m == TopDumped.type.members[i]
                  addr == TopDumped.address + m.offset
              IN  IsSmfCtx(m) =>
                      MemberValues(TopDumped, m) =
                          IF Readable(ui.jlink, addr, 4)
                          THEN {read_smf_state_name(Inspected,
                                                    Word(ui.jlink, addr))}
                          ELSE {read_value(ui.jlink, addr,
                                           heap[m.type_info]).value}
        /\ OthersExpanded

\* main_state was dumped from readable memory: ctx is one line with the
\* name of state 1, nested is expanded into flag and tag, and the dump has
\* its 15 lines
C25_Witness ==
    /\ DumpShown
    /\ heap[Inspected.state_var_type].name = "main_state"
    /\ ui.jlink.unreadable = {}
    /\ ui.jlink.connected
    /\ Inspected.states_array_addr # None
    /\ Len(ui.out) = 15
    /\ ui.out[6] = "ctx      : STATE_RUNNING"
    /\ ui.out[8] = "nested   : inner { ... }"
    /\ ui.out[9] = "  {"
    /\ ui.out[10] = "    flag : true"
    /\ ui.out[11] = "    tag  : 'A'"
    /\ ui.out[12] = "  }"

(***************************************************************************)
(* C26: a dump does not follow pointers                                    *)
(***************************************************************************)
\* the number of reads print_struct asks the probe for, for the members of
\* ty from the i-th on: one for an smf_ctx, one for a member read_value
\* reads, those of its members for an embedded struct
RECURSIVE DumpReads(_, _)
DumpReads(ty, i) ==
    IF i > Len(ty.members) THEN 0
    ELSE LET m == ty.members[i]
             mt == heap[m.type_info]
         IN  (IF IsSmfCtx(m) THEN 1
              ELSE IF Expanded(mt) THEN DumpReads(mt, 1)
              ELSE IF ReadSize(mt) > 0 THEN 1 ELSE 0)
                 + DumpReads(ty, i + 1)

\* the pointer members of the dumped structures, as <<structure, member>>
PointerLines ==
    { dm \in UNION { { <<d, d.type.members[i]>> : i \in DOMAIN d.type.members } :
                       d \in Dumped } :
        heap[dm[2].type_info].kind = "PointerType" /\ ~IsSmfCtx(dm[2]) }

\* the array members of the dumped structures
ArrayLines ==
    { dm \in UNION { { <<d, d.type.members[i]>> : i \in DOMAIN d.type.members } :
                       d \in Dumped } :
        heap[dm[2].type_info].kind = "ArrayType" /\ ~IsSmfCtx(dm[2]) }

\* the lines of the output that are the line of member m of structure d
LinesOfMember(d, m) ==
    LET head == Repeat(" ", d.indent)
                    \o LJust(m.name, MaxNameLen(d.type.members)) \o " : "
    IN  { j \in 1..Len(ui.out) :
            Len(ui.out[j]) >= Len(head) /\ SubSeq(ui.out[j], 1, Len(head)) = head }

\* how read_value writes the pointer value w
PointerText(w) == IF w = 0 THEN "NULL" ELSE "0x" \o Hex08(w)

\* the dump is finite and stays within the dumped structure: its lines are
\* those of the members embedded by value, every read lies in the bytes of
\* the structure, there is at most one read per member, and a pointer or
\* array member has one line
StaysInStructure ==
    /\ Len(ui.out) = 6 + DumpLength(TopDumped.type, 1)
    /\ Len(ui.calls) = DumpReads(TopDumped.type, 1)
    /\ \A k \in 1..Len(ui.calls) :
          /\ ui.calls[k].addr >= TopDumped.address
          /\ ui.calls[k].addr + ui.calls[k].num
                 <= TopDumped.address + TopDumped.type.size
    /\ \A dm \in PointerLines \cup ArrayLines :
          Cardinality(LinesOfMember(dm[1], dm[2])) = 1

\* C26 as claimed: a dump of a type that is cyclic through pointers ends;
\* it goes into the struct members embedded by value only, never into the
\* target of a pointer or the elements of an array, and each pointer member
\* has exactly one line, with the pointer's value as an address or "NULL".
C26_PointerLineIsAddressOrNull ==
    DumpShown =>
        /\ StaysInStructure
        /\ \A dm \in PointerLines :
              MemberValues(dm[1], dm[2]) =
                  {PointerText(Word(ui.jlink, dm[1].address + dm[2].offset))}

\* C26 (amended): a dump of a type that is cyclic through pointers ends; it
\* goes into the struct members embedded by value only, never into the
\* target of a pointer or the elements of an array, and each pointer member
\* has exactly one line: with the pointer's value as an address or "NULL"
\* when its 4 bytes were read, with "<Error: <message>>" when they were not.
C26_PointerLineWithoutFollowing ==
    DumpShown =>
        /\ StaysInStructure
        /\ \A dm \in PointerLines :
              LET addr == dm[1].address + dm[2].offset
              IN  MemberValues(dm[1], dm[2]) =
                      IF Readable(ui.jlink, addr, 4)
                      THEN {PointerText(Word(ui.jlink, addr))}
                      ELSE {"<Error: " \o ui.jlink.message \o ">"}

\* main_state, whose member next is a pointer to main_state and holds the
\* address of the dumped variable itself, was dumped in 15 lines and 6 reads
C26_Witness ==
    /\ DumpShown
    /\ heap[Inspected.state_var_type].name = "main_state"
    /\ heap[heap[TopDumped.type.members[5].type_info].target_type] = TopDumped.type
    /\ Word(ui.jlink, TopDumped.address + 12) = TopDumped.address
    /\ ui.jlink.unreadable = {}
    /\ ui.out[14] = "next     : 0x20000000"
    /\ Len(ui.out) = 15
    /\ Len(ui.calls) = 6

(***************************************************************************)
(* NRFCloudFOTA.post_fota_job (tests/on_target/utils/nrfcloud.py).  The    *)
(* jobs the call created are kept as records, the id of a job being its    *)
(* position; a request to nRF Cloud succeeds, is answered with an error    *)
(* status (requests raises HTTPError from raise_for_status) or gets no     *)
(* answer (requests raises ConnectionError or Timeout, which are no        *)
(* HTTPError).                                                             *)
(***************************************************************************)
MaxAttempts == 3        \* `for _ in range(3)`
MaxPolls == 10          \* `for _ in range(10)`

\* the statuses nRF Cloud reports for a job
Statuses == {"QUEUED", "IN_PROGRESS", "CANCELLED", "COMPLETED"}

Outcomes == {"ok", "HTTPError", "ConnectionError"}

NewJob ==
    [applied |-> FALSE, polls |-> 0, last |-> "NONE", cancelled |-> FALSE,
     deleted |-> FALSE]

\* the job of the running attempt
job_id == Len(fota.jobs)

\* an exception leaves post_fota_job
FotaRaise(exc) == fota' = [fota EXCEPT !.pc = "raised", !.exc = exc]

\* a cancellation asked for whatever the status
ShouldCancel_Always(status) == TRUE

\* line 406
ShouldCancel(status) == status # "CANCELLED"

InitFota ==
    /\ fota = [pc |-> "create", attempt |-> 0, jobs |-> << >>, polls |-> 0,
               status |-> "NONE", result |-> None, exc |-> ""]
    /\ dies = NoUnit
    /\ ParserIdle
    /\ smf = Idle
    /\ rv = Idle
    /\ ui = Idle
    /\ elf = Idle
    /\ vm = Idle

\* lines 384-385: the next pass of the outer loop, create_fota_job
CreateFotaJob(outcome) ==
    /\ fota.pc = "create"
    /\ fota.attempt < MaxAttempts
    /\ IF outcome = "ok"
       THEN fota' = [fota EXCEPT !.pc = "apply", !.attempt = @ + 1,
                                 !.jobs = Append(@, NewJob)]
       ELSE FotaRaise(outcome)
    /\ UNCHANGED <<parseVars, smf, rv, ui, elf, vm>>

\* lines 387-394: the job is applied, an HTTPError being ignored
ApplyFotaJob(outcome) ==
    /\ fota.pc = "apply"
    /\ IF outcome = "ConnectionError" THEN FotaRaise(outcome)
       ELSE fota' = [fota EXCEPT !.pc = "poll", !.polls = 0, !.status = "NONE",
                                 !.jobs[job_id].applied = (outcome = "ok")]
    /\ UNCHANGED <<parseVars, smf, rv, ui, elf, vm>>

\* lines 395-403: one pass of the inner loop, get_fota_status answering s
GetFotaStatus(outcome, s) ==
    /\ fota.pc = "poll"
    /\ fota.polls < MaxPolls
    /\ CASE outcome = "ConnectionError" -> FotaRaise(outcome)
         [] outcome = "HTTPError" ->
                fota' = [fota EXCEPT !.polls = @ + 1,
                                     !.jobs[job_id].polls = @ + 1]
         [] outcome = "ok" ->
                fota' = [fota EXCEPT !.polls = @ + 1, !.status = s,
                                     !.jobs[job_id].polls = @ + 1,
                                     !.jobs[job_id].last = s,
                                     !.pc = IF s = "IN_PROGRESS" THEN "done"
                                            ELSE @,
                                     !.result = IF s = "IN_PROGRESS"
                                                THEN job_id ELSE @]
    /\ UNCHANGED <<parseVars, smf, rv, ui, elf, vm>>

\* lines 404-406: the inner loop has run out
TimedOut ==
    /\ fota.pc = "poll"
    /\ fota.polls = MaxPolls
    /\ fota' = [fota EXCEPT !.pc = IF ShouldCancel(fota.status) THEN "cancel"
                                   ELSE "delete"]
    /\ UNCHANGED <<parseVars, smf, rv, ui, elf, vm>>

\* line 407: cancel_fota_job
CancelFotaJob(outcome) ==
    /\ fota.pc = "cancel"
    /\ IF outcome = "ok"
       THEN fota' = [fota EXCEPT !.pc = "delete",
                                 !.jobs[job_id].cancelled = TRUE]
       ELSE FotaRaise(outcome)
    /\ UNCHANGED <<parseVars, smf, rv, ui, elf, vm>>

\* line 408: delete_fota_job
DeleteFotaJob(outcome) ==
    /\ fota.pc = "delete"
    /\ IF outcome = "ok"
       THEN fota' = [fota EXCEPT !.pc = "create",
                                 !.jobs[job_id].deleted = TRUE]
       ELSE FotaRaise(outcome)
    /\ UNCHANGED <<parseVars, smf, rv, ui, elf, vm>>

\* line 409: the outer loop has run out
ReturnNone ==
    /\ fota.pc = "create"
    /\ fota.attempt = MaxAttempts
    /\ fota' = [fota EXCEPT !.pc = "done", !.result = None]
    /\ UNCHANGED <<parseVars, smf, rv, ui, elf, vm>>

NextFota ==
    \/ \E outcome \in Outcomes : CreateFotaJob(outcome)
    \/ \E outcome \in Outcomes : ApplyFotaJob(outcome)
    \/ \E outcome \in Outcomes, s \in Statuses : GetFotaStatus(outcome, s)
    \/ TimedOut
    \/ \E outcome \in Outcomes : CancelFotaJob(outcome)
    \/ \E outcome \in Outcomes : DeleteFotaJob(outcome)
    \/ ReturnNone

SpecFota == InitFota /\ [][NextFota]_vars

(***************************************************************************)
(* C29: the jobs of post_fota_job                                          *)
(***************************************************************************)
FotaReturned == fota.pc = "done"
FotaRaised == fota.pc = "raised"

\* the attempt of job j ended without IN_PROGRESS and the job was cleaned
\* up: polled to the end, cancelled unless seen as CANCELLED, deleted
CleanedUp(j) ==
    /\ fota.jobs[j].polls = MaxPolls
    /\ fota.jobs[j].last # "IN_PROGRESS"
    /\ fota.jobs[j].cancelled = (fota.jobs[j].last # "CANCELLED")
    /\ fota.jobs[j].deleted

\* at most 3 jobs, at most 10 polls of each; a job id is returned only for
\* the job seen as IN_PROGRESS; a job is created only when the jobs before
\* it are cleaned up; None is returned after 3 attempts with no job left
JobsInOrder ==
    /\ Len(fota.jobs) <= MaxAttempts
    /\ \A j \in 1..Len(fota.jobs) : fota.jobs[j].polls <= MaxPolls
    /\ FotaReturned /\ fota.result # None =>
          /\ fota.result = job_id
          /\ fota.jobs[job_id].last = "IN_PROGRESS"
          /\ fota.jobs[job_id].polls \in 1..MaxPolls
          /\ ~fota.jobs[job_id].deleted
    /\ \A j \in 1..(Len(fota.jobs) - 1) : CleanedUp(j)
    /\ FotaReturned /\ fota.result = None =>
          /\ Len(fota.jobs) = MaxAttempts
          /\ \A j \in 1..Len(fota.jobs) : CleanedUp(j)

DefaultMaxRetries == 3          \* max_retries=3
DefaultMaxIterations == 3       \* max_iterations=3

Details == {"", "a", "b"}

Reply(match, details, has_details, needs_refinement) ==
    [match |-> match, details |-> details, has_details |-> has_details,
     needs_refinement |-> needs_refinement]

\* the JSON objects a call can deliver
Replies ==
    { Reply(m, d, TRUE, n) : m \in BOOLEAN, d \in Details, n \in BOOLEAN }
        \cup { Reply(m, "", FALSE, n) : m \in BOOLEAN, n \in BOOLEAN }

\* what one attempt ends with
Attempts == {[kind |-> "Exception"], [kind |-> "JSONDecodeError"]}
                \cup { [kind |-> "result", result |-> r] : r \in Replies }

\* line 282: the last entry of the history, or a result without match; the
\* result made up at lines 260-264 for a failed call is overwritten here
LastVerification(history) ==
    IF history = << >> THEN [match |-> FALSE] ELSE history[Len(history)]

\* all(r.get('match', False) for r in results)
RECURSIVE AllMatch(_)
AllMatch(results) ==
    IF results = << >> THEN TRUE
    ELSE Head(results).match /\ AllMatch(Tail(results))

InitVerify ==
    /\ \E r \in 1..DefaultMaxRetries, i \in 1..DefaultMaxIterations :
          vm = [pc |-> "analysis", max_retries |-> r, max_iterations |-> i,
                attempt |-> 1, analysis_attempts |-> 0,
                verify_attempts |-> << >>, results |-> << >>,
                history |-> << >>, iteration |-> 0, previous_details |-> "",
                failed |-> FALSE, exc |-> "", returned |-> Idle]
    /\ dies = NoUnit
    /\ ParserIdle
    /\ smf = Idle
    /\ rv = Idle
    /\ ui = Idle
    /\ elf = Idle
    /\ fota = Idle

\* an exception leaves compare_state_machines
VerifyRaise(state, exc) == [state EXCEPT !.pc = "raised", !.exc = exc]

\* the attempt did not deliver an object and make_api_call tries again
Retried(a) == a.kind # "result" /\ vm.attempt < vm.max_retries

\* lines 62-107 and 170-186: one attempt of the State Analysis call; with
\* the last one the results are gathered and summarised
AnalysisAttempt(a) ==
    /\ vm.pc = "analysis"
    /\ LET tried == [vm EXCEPT !.analysis_attempts = @ + 1]
       IN  vm' = IF Retried(a) THEN [tried EXCEPT !.attempt = @ + 1]
                 ELSE IF a.kind # "result"
                 THEN [tried EXCEPT !.pc = "loop"]
                 ELSE IF ~a.result.has_details
                 THEN VerifyRaise([tried EXCEPT !.results = <<a.result>>],
                                  "KeyError")
                 ELSE [tried EXCEPT !.pc = "loop", !.results = <<a.result>>]
    /\ UNCHANGED <<parseVars, smf, rv, ui, elf, fota>>

\* lines 236-250: the next iteration is entered and its prompt is built
\* from the details of the State Analysis
EnterIteration ==
    /\ vm.pc = "loop"
    /\ vm.iteration < vm.max_iterations
    /\ LET entered == [vm EXCEPT !.iteration = @ + 1]
       IN  vm' = IF vm.results = << >> THEN VerifyRaise(entered, "TypeError")
                 ELSE [entered EXCEPT !.pc = "verify", !.attempt = 1,
                                      !.verify_attempts = Append(@, 0)]
    /\ UNCHANGED <<parseVars, smf, rv, ui, elf, fota>>

\* lines 252-279: one attempt of the verification call of this iteration;
\* with the last one the result is taken into the history, or the loop left
VerifyAttempt(a) ==
    /\ vm.pc = "verify"
    /\ LET tried == [vm EXCEPT !.verify_attempts[vm.iteration] = @ + 1]
       IN  vm' =
             IF Retried(a) THEN [tried EXCEPT !.attempt = @ + 1]
             ELSE IF a.kind # "result"
             THEN [tried EXCEPT !.pc = "finish", !.failed = TRUE]
             ELSE LET kept == [tried EXCEPT !.history = Append(@, a.result)]
                  IN  IF ~a.result.has_details THEN VerifyRaise(kept, "KeyError")
                      ELSE IF a.result.details = vm.previous_details
                      THEN [kept EXCEPT !.pc = "finish"]
                      ELSE IF ~a.result.needs_refinement
                      THEN [kept EXCEPT !.pc = "finish",
                                        !.previous_details = a.result.details]
                      ELSE [kept EXCEPT !.pc = "loop",
                                        !.previous_details = a.result.details]
    /\ UNCHANGED <<parseVars, smf, rv, ui, elf, fota>>

\* line 236: the iterations are used up
LeaveLoop ==
    /\ vm.pc = "loop"
    /\ vm.iteration >= vm.max_iterations
    /\ vm' = [vm EXCEPT !.pc = "finish"]
    /\ UNCHANGED <<parseVars, smf, rv, ui, elf, fota>>

\* lines 281-314
ReturnResult ==
    /\ vm.pc = "finish"
    /\ vm' = [vm EXCEPT
                 !.pc = "done",
                 !.returned =
                     [match |-> AllMatch(vm.results)
                                  /\ LastVerification(vm.history).match,
                      iterations |-> Len(vm.history)]]
    /\ UNCHANGED <<parseVars, smf, rv, ui, elf, fota>>

NextVerify ==
    \/ \E a \in Attempts : AnalysisAttempt(a)
    \/ EnterIteration
    \/ \E a \in Attempts : VerifyAttempt(a)
    \/ LeaveLoop
    \/ ReturnResult

SpecVerify == InitVerify /\ [][NextVerify]_vars

(***************************************************************************)
(* C30: the overall match of compare_state_machines                        *)
(***************************************************************************)
VerifyReturned == vm.pc = "done"

\* no call was tried more than max_retries times, and no more than
\* max_iterations iterations were entered
WithinLimits ==
    /\ vm.analysis_attempts <= vm.max_retries
    /\ \A i \in 1..Len(vm.verify_attempts) :
          vm.verify_attempts[i] <= vm.max_retries
    /\ Len(vm.verify_attempts) <= vm.iteration
    /\ vm.iteration <= vm.max_iterations

\* the last iteration that was entered delivered a result, with match true
FinalVerificationMatched ==
    /\ vm.iteration >= 1
    /\ ~vm.failed
    /\ Len(vm.history) = vm.iteration
    /\ vm.history[vm.iteration].match

\* C30: compare_state_machines ends with at most max_retries attempts per
\* call and at most max_iterations iterations, and the match it returns is
\* true only if the State Analysis result has match true and the last
\* verification iteration that was attempted completed with match true; a
\* failed analysis or a failed final verification call never gives true.
C30_MatchOnlyIfFinalVerificationMatched ==
    /\ WithinLimits
    /\ VerifyReturned /\ vm.returned.match =>
          /\ Len(vm.results) = 1
          /\ vm.results[1].match
          /\ FinalVerificationMatched

\* the State Analysis and the first verification matched, the first
\* verification asking for a refinement; every attempt of the second
\* verification failed; the match returned is true
C30_FailingInput ==
    /\ VerifyReturned
    /\ vm.max_retries = DefaultMaxRetries
    /\ vm.max_iterations = DefaultMaxIterations
    /\ vm.results[1].match
    /\ vm.iteration = 2
    /\ Len(vm.history) = 1
    /\ vm.history[1].match /\ vm.history[1].needs_refinement
    /\ vm.verify_attempts = <<1, DefaultMaxRetries>>
    /\ vm.failed
    /\ vm.returned = [match |-> TRUE, iterations |-> 1]

\* what holds of the code: true is returned only if the State Analysis and
\* the last verification that delivered a result have match true
C30_MatchOfLastDeliveredVerification ==
    /\ WithinLimits
    /\ VerifyReturned /\ vm.returned.match =>
          /\ Len(vm.results) = 1
          /\ vm.results[1].match
          /\ vm.history # << >>
          /\ vm.history[Len(vm.history)].match

=============================================================================
